---- MODULE Spec2Model ----
(***************************************************************************)
(* NewsDigestBot: the TTL cache (utils/cache.py), the GNews client         *)
(* (services/news_api.py), the digest assembler (services/digest.py) and   *)
(* the scheduled delivery loop (services/scheduler.py).                    *)
(*                                                                         *)
(* Time is the value of time.time() in whole seconds.  A Python list is a  *)
(* sequence and a dict is a function whose DOMAIN is the set of its keys.  *)
(* An Optional[T] is Nil (Python's None) or Some(v).                       *)
(***************************************************************************)
EXTENDS Integers, Sequences, FiniteSets, TLC

VARIABLES
    now,        \* time.time(), seconds
    ticks,      \* number of clock advances so far (bounds the run)
    \* ---- utils/cache.py: one TTLCache instance under test
    cache,      \* TTLCache._cache
    op,         \* the last cache operation and what it saw and returned
    lastSet,    \* per key: the value and expiry of the last set() not since
                \* undone by delete()/clear() (history)
    \* ---- services/news_api.py
    articles_cache, \* utils.cache.articles_cache._cache
    call,           \* per caller: the search() invocation it is running
    latestGood,     \* per cache key: list and expiry stored by the latest HTTP-200
                    \* fetch (history)
    \* ---- services/digest.py
    digest_cache,   \* utils.cache.digest_cache._cache
    topicStore,     \* per user: the topic names TopicRepository lists
    dg,             \* per caller: the generate_digest() invocation it is running
    lastDigest,     \* per user: the DigestResult last stored in digest_cache
                    \* (history)
    \* ---- services/scheduler.py
    schedules,      \* the schedules table: per user, the row or Nil
    job,            \* the APScheduler job "check_digests"
    tick,           \* the latest run of check_and_send_digests
    sent,           \* every scheduled message delivered so far (history)
    edits,          \* number of writes to the schedules table so far
    \* ---- search_multiple and the cut of generate_digest, on given lists
    merge,          \* the call: the lists search() returned, and what came out
    \* ---- ScheduleRepository.create_or_update in concurrent database sessions
    table,          \* the committed rows of the schedules table
    sess,           \* session -> the create_or_update call it runs
    saves,          \* number of create_or_update calls begun so far
    \* ---- handlers/schedule.py: the time-selection flow
    selected,       \* user -> selected_times of the user's FSM data
    answer,         \* the last callback answered: whose, and with what
    \* ---- database/repositories/topic.py
    topicOp,        \* the last TopicRepository call: what it was given and did
    \* ---- services/scheduler.py, history
    prevTick,       \* how the run of the job before the current one ended
    clock,          \* check_and_send_digests, line 74, on a host in some time zone
    \* ---- handlers/digest.py save:<id>, handlers/library.py, the library tables
    article_rows,   \* the committed rows of the articles table
    saved_rows,     \* the committed rows of the saved_articles table
    lib,            \* session -> the save_article_callback it runs
    libCalls,       \* number of save_article_callback calls begun so far
    shown,          \* user -> the library page on the user's screen, if any
    lastDel         \* the last lib_del_idx click: what was shown, what went

cacheVars == <<cache, op, lastSet>>
searchVars == <<articles_cache, call, latestGood>>
digestVars == <<digest_cache, topicStore, dg, lastDigest>>
schedVars == <<schedules, job, tick, sent, edits>>
mergeVars == <<merge>>
saveVars == <<table, sess, saves>>
entryVars == <<selected, answer>>
topicVars == <<topicOp>>
tickHist == <<prevTick>>
clockVars == <<clock>>
libVars == <<article_rows, saved_rows, lib, libCalls, shown, lastDel>>
vars == <<now, ticks, cacheVars, searchVars, digestVars, schedVars, mergeVars,
          saveVars, entryVars, topicVars, libVars, tickHist, clockVars>>

exceptCache == <<searchVars, digestVars, schedVars, mergeVars, saveVars, entryVars,
    topicVars, libVars, tickHist, clockVars>>
exceptSearch == <<cacheVars, digestVars, schedVars, mergeVars, saveVars, entryVars,
    topicVars, libVars, tickHist, clockVars>>
exceptDigest == <<cacheVars, searchVars, schedVars, mergeVars, saveVars, entryVars,
    topicVars, libVars, tickHist, clockVars>>
exceptDigestSearch == <<cacheVars, schedVars, mergeVars, saveVars, entryVars,
    topicVars, libVars, tickHist, clockVars>>
exceptSched == <<cacheVars, searchVars, digestVars, mergeVars, saveVars, entryVars,
    topicVars, libVars, tickHist, clockVars>>
exceptMerge == <<cacheVars, searchVars, digestVars, schedVars, saveVars, entryVars,
    topicVars, libVars, tickHist, clockVars>>
exceptSave == <<cacheVars, searchVars, digestVars, schedVars, mergeVars, entryVars,
    topicVars, libVars, tickHist, clockVars>>
exceptEntry == <<cacheVars, searchVars, digestVars, mergeVars, saveVars,
                 job, tick, sent, edits,
    topicVars, libVars, tickHist, clockVars>>
exceptTopics == <<cacheVars, searchVars, schedVars, mergeVars, saveVars, entryVars,
                  digest_cache, dg, lastDigest, libVars, tickHist, clockVars>>
exceptLib == <<cacheVars, searchVars, digestVars, schedVars, mergeVars, saveVars,
               entryVars, topicVars, tickHist, clockVars>>

exceptTicks == <<cacheVars, searchVars, digestVars, mergeVars, saveVars, entryVars,
                 topicVars, libVars, clockVars>>
exceptClock == <<cacheVars, searchVars, digestVars, schedVars, mergeVars, saveVars,
                 entryVars, topicVars, libVars, tickHist>>

None == "None"

\* Optional[T]
Nil == <<>>
Some(v) == <<v>>
The(o) == o[1]

----------------------------------------------------------------------------
(* Bounds of the model *)

MaxTicks == 3
\* runs of the scheduled job submitted to the executor
MaxRuns == 2
\* writes to the schedules table by the schedule handlers
MaxEdits == 1
\* minutes of the scheduler's clock
MaxMinutes == 3
\* articles in the list one search() returns
MaxPerQuery == 2
\* create_or_update calls begun
MaxSaves == 3
\* names in the list given to replace_all
MaxNames == 2
\* save_article_callback calls begun
MaxLibCalls == 3

(* Program constants *)

ArticlesTtl == 1800
DigestTtl == 300

----------------------------------------------------------------------------
(* utils/cache.py: TTLCache *)

Keys == {"k1", "k2"}
Vals == {"v1", "v2"}
\* set()'s ttl_seconds argument: None (use the instance's default) or a number
TtlArgs == {Nil, Some(0), Some(1)}
CacheSteps == {1, 299}

RemoveKey(c, key) == [k \in DOMAIN c \ {key} |-> c[k]]

EmptyDict == [k \in {} |-> None]

CacheEntry(value, expires_at) == [value |-> value, expires_at |-> expires_at]

\* mutant: an entry is treated as expired already at its expiry instant
TTLExpired_AtInstant(entry, t) == t >= entry.expires_at

\* `time.time() > entry.expires_at`
TTLExpired(entry, t) == t > entry.expires_at

\* TTLCache.get: the dict after the call (an expired entry is deleted)
TTLGetCache(c, key, t) ==
    IF key \in DOMAIN c /\ TTLExpired(c[key], t) THEN RemoveKey(c, key) ELSE c

\* TTLCache.get: the value returned
TTLGetValue(c, key, t) ==
    IF key \notin DOMAIN c THEN Nil
    ELSE IF TTLExpired(c[key], t) THEN Nil
    ELSE Some(c[key].value)

\* TTLCache.set: ttl_seconds if given, else the instance's ttl_seconds
TTLSet(c, key, value, ttlArg, default, t) ==
    LET ttl == IF ttlArg # Nil THEN The(ttlArg) ELSE default
    IN [k \in DOMAIN c \cup {key} |->
            IF k = key THEN CacheEntry(value, t + ttl) ELSE c[k]]

\* TTLCache.delete: the dict after the call
TTLDelete(c, key) == IF key \in DOMAIN c THEN RemoveKey(c, key) ELSE c

\* TTLCache.cleanup_expired: the keys it removes
TTLExpiredKeys(c, t) == {k \in DOMAIN c : TTLExpired(c[k], t)}

\* TTLCache.__len__
TTLLen(c) == Cardinality(DOMAIN c)

NoSet == [has |-> FALSE, value |-> None, until |-> 0]

NoOp == [name |-> "none", key |-> None, ret |-> Nil, preLen |-> 0, prePresent |-> FALSE]

Cache_get(key) ==
    /\ cache' = TTLGetCache(cache, key, now)
    /\ op' = [name |-> "get", key |-> key, ret |-> TTLGetValue(cache, key, now),
              preLen |-> TTLLen(cache), prePresent |-> key \in DOMAIN cache]
    /\ UNCHANGED <<now, ticks, lastSet>>

Cache_set(key, value, ttlArg) ==
    /\ cache' = TTLSet(cache, key, value, ttlArg, DigestTtl, now)
    /\ op' = [name |-> "set", key |-> key, ret |-> Nil,
              preLen |-> TTLLen(cache), prePresent |-> key \in DOMAIN cache]
    /\ lastSet' = [lastSet EXCEPT ![key] =
                      [has |-> TRUE, value |-> value,
                       until |-> now + (IF ttlArg = Nil THEN DigestTtl
                                       ELSE The(ttlArg))]]
    /\ UNCHANGED <<now, ticks>>

Cache_delete(key) ==
    /\ cache' = TTLDelete(cache, key)
    /\ op' = [name |-> "delete", key |-> key,
              ret |-> Some(key \in DOMAIN cache),
              preLen |-> TTLLen(cache), prePresent |-> key \in DOMAIN cache]
    /\ lastSet' = [lastSet EXCEPT ![key] = NoSet]
    /\ UNCHANGED <<now, ticks>>

Cache_clear ==
    /\ cache' = EmptyDict
    /\ op' = [name |-> "clear", key |-> None, ret |-> Nil,
              preLen |-> TTLLen(cache), prePresent |-> FALSE]
    /\ lastSet' = [k \in Keys |-> NoSet]
    /\ UNCHANGED <<now, ticks>>

Cache_cleanup_expired ==
    LET expired_keys == TTLExpiredKeys(cache, now)
    IN /\ cache' = [k \in DOMAIN cache \ expired_keys |-> cache[k]]
       /\ op' = [name |-> "cleanup_expired", key |-> None,
                 ret |-> Some(Cardinality(expired_keys)),
                 preLen |-> TTLLen(cache), prePresent |-> FALSE]
       /\ UNCHANGED <<now, ticks, lastSet>>

\* the clock moves on between two calls
CacheAdvance ==
    /\ ticks < MaxTicks
    /\ \E d \in CacheSteps : now' = now + d
    /\ ticks' = ticks + 1
    /\ op' = NoOp
    /\ UNCHANGED <<cache, lastSet>>

InitCacheVars ==
    /\ cache = EmptyDict
    /\ op = NoOp
    /\ lastSet = [k \in Keys |-> NoSet]

----------------------------------------------------------------------------
(* services/news_api.py: ArticleDTO, NewsApiService._request, .search *)

Retries == 3

DefaultLang == "ru"
Queries == {"python", "ai"}
Langs == {Nil, Some("ru")}
Callers == {"s1", "s2"}
SearchSteps == {1, 1800}

\* provider records; publishedAt is Some(instant) when the ISO string parses
RawA == [url |-> "u1", publishedAt |-> Some(10)]
RawB == [url |-> "u2", publishedAt |-> Some(20)]
Bodies == {<<>>, <<RawA>>, <<RawB, RawA>>}

\* what one HTTP exchange can give: a status, aiohttp.ClientError, or, when the
\* answer does not come within the session's total timeout,
\* asyncio.TimeoutError, which is no aiohttp.ClientError
Statuses == {"200", "403", "400", "500", "ClientError", "TimeoutError"}
ConcStatuses == {"200", "403", "400"}

\* hashlib.md5(url.encode()).hexdigest(): a function of the URL alone
Md5(url) == <<"md5", url>>

\* ArticleDTO.from_api_response
FromApiResponse(data, t) ==
    [external_id |-> Md5(data.url),
     url |-> data.url,
     published_at |-> IF data.publishedAt # Nil
                      THEN [at |-> The(data.publishedAt), aware |-> TRUE]
                      ELSE [at |-> t, aware |-> FALSE]]

\* [ArticleDTO.from_api_response(a) for a in data.get("articles", [])]
ParseArticles(body, t) == [i \in 1..Len(body) |-> FromApiResponse(body[i], t)]

\* f"search:{query}:{lang or self.default_lang}"
SearchKey(query, lang) ==
    <<"search", query, IF lang # Nil THEN The(lang) ELSE DefaultLang>>

SearchKeys == {SearchKey(q, l) : q \in Queries, l \in Langs}

Pow2(n) == IF n = 0 THEN 1 ELSE IF n = 1 THEN 2 ELSE IF n = 2 THEN 4 ELSE 8

\* _request(..., retries: int = 3)
RequestRetries == Retries

\* mutant: the backoff wait is taken after the last attempt too
RequestSleeps_Always(attempt) == TRUE

\* `if attempt < retries - 1: await asyncio.sleep(2**attempt)`
RequestSleeps(attempt) == attempt < RequestRetries - 1

\* `return cached if cached else []` in the RateLimitError handler
SearchRateLimited(cached) ==
    IF cached # Nil /\ The(cached) # <<>> THEN The(cached) ELSE <<>>

\* mutant: search() goes to the network whatever the cache holds
SearchCached_Ignore(c, key, t) == Nil

\* `cached = articles_cache.get(cache_key)`
SearchCached(c, key, t) == TTLGetValue(c, key, t)

NoGood == [has |-> FALSE, list |-> <<>>, until |-> 0]

Live(g, t) == g.has /\ t <= g.until

IdleCall ==
    [pc |-> "idle", key |-> <<>>, cached |-> Nil, attempt |-> 0, requests |-> 0,
     statuses |-> <<>>, sleeps |-> <<>>, wakeAt |-> 0, outcome |-> "none",
     body |-> <<>>, result |-> <<>>, raised |-> "None", expect |-> Nil,
     goodAtEnd |-> Nil]

\* search(): the cache check, lines 132-138
Search_start(c, query, lang) ==
    LET key == SearchKey(query, lang)
        cached == SearchCached(articles_cache, key, now)
        base == [IdleCall EXCEPT
                    !.key = key, !.cached = cached,
                    !.expect = IF Live(latestGood[key], now)
                               THEN Some(latestGood[key].list) ELSE Nil]
    IN /\ call[c].pc = "idle"
       /\ articles_cache' = TTLGetCache(articles_cache, key, now)
       /\ call' = [call EXCEPT ![c] =
                      IF cached # Nil
                      THEN [base EXCEPT !.pc = "done", !.outcome = "hit",
                                        !.result = The(cached)]
                      ELSE [base EXCEPT !.pc = "attempt"]]
       /\ UNCHANGED <<now, ticks, latestGood>>

\* the end of search() once _request returned data, returned None or raised,
\* lines 146-163: only RateLimitError has a handler, any other exception leaves
\* search() and there is no list
SearchFinish(cl, outcome, articles) ==
    [cl EXCEPT !.pc = "done", !.outcome = outcome,
               !.result = CASE outcome = "json" -> articles
                            [] outcome = "None" -> <<>>
                            [] outcome = "RateLimitError" -> SearchRateLimited(cl.cached)
                            [] OTHER -> <<>>,
               !.raised = IF outcome \in {"json", "None", "RateLimitError"}
                          THEN "None" ELSE outcome]

\* one pass of the `for attempt in range(retries)` loop of _request, and with it
\* the rest of search() when the pass ends the loop
Request_attempt(c, status, body) ==
    LET key == call[c].key
        cl == [call[c] EXCEPT !.requests = @ + 1, !.statuses = Append(@, status),
                              !.goodAtEnd = IF latestGood[key].has
                                            THEN Some(latestGood[key].list) ELSE Nil]
        articles == ParseArticles(body, now)
    IN /\ call[c].pc = "attempt"
       /\ status = "200" \/ body = <<>>
       /\ IF status = "200"
          THEN /\ articles_cache' =
                     TTLSet(articles_cache, key, articles, Nil, ArticlesTtl, now)
               /\ call' = [call EXCEPT ![c] =
                             SearchFinish([cl EXCEPT !.body = body], "json", articles)]
               /\ latestGood' = [latestGood EXCEPT ![key] =
                     [has |-> TRUE, list |-> articles, until |-> now + ArticlesTtl]]
          ELSE /\ UNCHANGED <<articles_cache, latestGood>>
               /\ call' = [call EXCEPT ![c] =
                    IF status = "403"
                        THEN SearchFinish(cl, "RateLimitError", <<>>)
                    ELSE IF status = "400"
                        THEN SearchFinish(cl, "None", <<>>)
                    ELSE IF status = "TimeoutError"
                        THEN SearchFinish(cl, "TimeoutError", <<>>)
                    ELSE IF RequestSleeps(cl.attempt)
                        THEN [cl EXCEPT !.pc = "sleep",
                                        !.sleeps = Append(@, Pow2(cl.attempt)),
                                        !.wakeAt = now + Pow2(cl.attempt)]
                    ELSE IF cl.attempt + 1 < RequestRetries
                        THEN [cl EXCEPT !.attempt = @ + 1]
                    ELSE SearchFinish(cl, "None", <<>>)]
       /\ UNCHANGED <<now, ticks>>

\* asyncio.sleep(2**attempt) is over: `continue` with the next attempt
Request_wake(c) ==
    /\ call[c].pc = "sleep"
    /\ now >= call[c].wakeAt
    /\ call' = [call EXCEPT ![c] =
                  IF call[c].attempt + 1 < RequestRetries
                  THEN [@ EXCEPT !.pc = "attempt", !.attempt = @ + 1]
                  ELSE SearchFinish(@, "None", <<>>)]
    /\ UNCHANGED <<now, ticks, articles_cache, latestGood>>

\* the caller has the list; it may call search() again
Search_return(c) ==
    /\ call[c].pc = "done"
    /\ call' = [call EXCEPT ![c] = IdleCall]
    /\ UNCHANGED <<now, ticks, articles_cache, latestGood>>

SearchAdvance ==
    /\ ticks < MaxTicks
    /\ \E d \in SearchSteps : now' = now + d
    /\ ticks' = ticks + 1
    /\ UNCHANGED searchVars

InitSearchVars ==
    /\ articles_cache = EmptyDict
    /\ call = [c \in Callers |-> IdleCall]
    /\ latestGood = [k \in SearchKeys |-> NoGood]

----------------------------------------------------------------------------
(* services/digest.py: DigestService.generate_digest, with                  *)
(* NewsApiService.search_multiple                                           *)

MaxArticles == 10

Users == {"u1", "u2"}
DigestCallers == {"g1"}
DigestSteps == {1, 300, 1800}

\* the news_api.search() invocation that belongs to a generate_digest() call
Searcher(g) == "s1"

\* f"digest:{telegram_id}"
DigestKey(u) == <<"digest", u>>

DigestResult(articles, topics, from_cache, error) ==
    [articles |-> articles, topics |-> topics, from_cache |-> from_cache,
     error |-> error]

\* mutant: the loop body without the seen_ids test
MergeUnseen_All(all_articles, articles) == all_articles \o articles

\* the loop body of search_multiple: articles not seen before are appended
RECURSIVE MergeUnseen(_, _)
MergeUnseen(all_articles, articles) ==
    IF articles = <<>> THEN all_articles
    ELSE LET a == Head(articles)
             seen_ids == {all_articles[i].external_id : i \in 1..Len(all_articles)}
         IN MergeUnseen(IF a.external_id \notin seen_ids
                        THEN Append(all_articles, a) ELSE all_articles,
                        Tail(articles))

\* mutant: a sort that puts an article before the equally recent ones seen
\* earlier
RECURSIVE SortNewestFirst_TiesReversed(_)
SortNewestFirst_TiesReversed(articles) ==
    IF articles = <<>> THEN <<>>
    ELSE LET n == Len(articles)
             a == articles[n]
             sorted == SortNewestFirst_TiesReversed(SubSeq(articles, 1, n - 1))
             k == Cardinality({i \in 1..Len(sorted) :
                                 sorted[i].published_at.at > a.published_at.at})
         IN SubSeq(sorted, 1, k) \o <<a>> \o SubSeq(sorted, k + 1, Len(sorted))

\* list.sort(key=published_at, reverse=True): stable, newest first
RECURSIVE SortNewestFirst(_)
SortNewestFirst(articles) ==
    IF articles = <<>> THEN <<>>
    ELSE LET n == Len(articles)
             a == articles[n]
             sorted == SortNewestFirst(SubSeq(articles, 1, n - 1))
             k == Cardinality({i \in 1..Len(sorted) :
                                 sorted[i].published_at.at >= a.published_at.at})
         IN SubSeq(sorted, 1, k) \o <<a>> \o SubSeq(sorted, k + 1, Len(sorted))

\* list.sort compares the keys: comparing an offset-naive datetime (the
\* datetime.now() of from_api_response) with an offset-aware one raises TypeError
SortRaises(articles) ==
    \E i, j \in 1..Len(articles) :
        articles[i].published_at.aware # articles[j].published_at.aware

\* mutant: no cut
Truncate_None(articles, max_articles) == articles

\* articles[:max_articles]
Truncate(articles, max_articles) ==
    SubSeq(articles, 1, IF Len(articles) < max_articles THEN Len(articles)
                        ELSE max_articles)

\* mutant: the digest is returned without digest_cache.set
GenerateOutcome_NeverStored(raised, articles, topics, cached) ==
    [result |-> IF raised = "None"
                THEN DigestResult(Truncate(articles, MaxArticles), topics, FALSE, "None")
                ELSE DigestResult(<<>>, topics, FALSE, "api_error"),
     store |-> FALSE]

\* the handlers of generate_digest's try block around search_multiple,
\* lines 82-123: what is returned, and whether it is cached
GenerateOutcome(raised, articles, topics, cached) ==
    CASE raised = "None" ->
            [result |-> DigestResult(Truncate(articles, MaxArticles), topics,
                                     FALSE, "None"),
             store |-> TRUE]
      [] raised = "RateLimitError" ->
            [result |-> IF cached # Nil
                        THEN [The(cached) EXCEPT !.from_cache = TRUE]
                        ELSE DigestResult(<<>>, topics, FALSE, "rate_limit"),
             store |-> FALSE]
      [] OTHER ->
            [result |-> DigestResult(<<>>, topics, FALSE, "api_error"),
             store |-> FALSE]

\* what search_multiple raises to generate_digest after the search() calls with
\* these outcomes: search() has already turned RateLimitError into a list, so
\* only what the last search() let through
SearchMultipleRaises(outcomes) ==
    LET last == outcomes[Len(outcomes)]
    IN IF last \in {"hit", "json", "None", "RateLimitError"} THEN "None" ELSE last

\* mutant: a handler that takes aiohttp.ClientError alone
ExceptException_ClientErrorOnly(exc) == exc = "ClientError"

\* `except Exception`, lines 65 and 117: SQLAlchemyError, asyncio.TimeoutError,
\* TypeError and the rest raised in the try blocks all derive from Exception
ExceptException(exc) == TRUE

\* mutant: no `if not topics` return
TopicsError_NoEmptyTest(load_raised, topics) ==
    IF load_raised # "None" THEN "database_error" ELSE "None"

\* lines 58-79: the error generate_digest returns after loading the topics
TopicsError(load_raised, topics) ==
    IF load_raised # "None" THEN "database_error"
    ELSE IF topics = <<>> THEN "no_topics"
    ELSE "None"

\* the exchanges of a search() made for a digest
DigestStatuses == ConcStatuses \cup {"TimeoutError"}

IdleDigest ==
    [pc |-> "idle", user |-> "None", cached |-> Nil, topics |-> <<>>, i |-> 0,
     all_articles |-> <<>>, outcomes |-> <<>>,
     result |-> DigestResult(<<>>, <<>>, FALSE, "None"), prev |-> Nil,
     load |-> "none", searches |-> 0, stored_at |-> Nil, raised |-> "None",
     at_call |-> <<>>]

\* generate_digest: the digest cache check, lines 50-56
Digest_start(g, u) ==
    LET key == DigestKey(u)
        cached == TTLGetValue(digest_cache, key, now)
        base == [IdleDigest EXCEPT !.user = u, !.cached = cached,
                                   !.prev = lastDigest[u],
                                   !.at_call = topicStore[u]]
    IN /\ dg[g].pc = "idle"
       /\ IF cached # Nil
          THEN \* `cached.from_cache = True` writes to the object the cache holds
               /\ digest_cache' = [digest_cache EXCEPT ![key].value.from_cache = TRUE]
               /\ dg' = [dg EXCEPT ![g] =
                            [base EXCEPT !.pc = "done",
                                         !.result = [The(cached) EXCEPT
                                                        !.from_cache = TRUE]]]
          ELSE /\ digest_cache' = TTLGetCache(digest_cache, key, now)
               /\ dg' = [dg EXCEPT ![g] = [base EXCEPT !.pc = "topics"]]
       /\ UNCHANGED <<now, ticks, topicStore, lastDigest>>

\* generate_digest: loading the topics, lines 58-79
Digest_topics(g, dbOk) ==
    LET topics == topicStore[dg[g].user]
        load_raised == IF dbOk THEN "None" ELSE "SQLAlchemyError"
        error == TopicsError(load_raised, topics)
    IN /\ dg[g].pc = "topics"
       /\ dg' = [dg EXCEPT ![g] =
                   IF load_raised # "None" /\ ~ExceptException(load_raised)
                   THEN [@ EXCEPT !.pc = "done", !.load = "failed",
                                  !.raised = load_raised]
                   ELSE IF error # "None"
                   THEN [@ EXCEPT !.pc = "done",
                            !.load = IF dbOk THEN "ok" ELSE "failed",
                            !.result = DigestResult(<<>>, <<>>, FALSE, error)]
                   ELSE [@ EXCEPT !.pc = "search", !.load = "ok",
                                  !.topics = topics, !.i = 1]]
       /\ UNCHANGED <<now, ticks, digest_cache, topicStore, lastDigest>>

\* search_multiple: `articles = await self.search(query, lang, max_per_query)`
Digest_search(g) ==
    /\ dg[g].pc = "search"
    /\ dg[g].i <= Len(dg[g].topics)
    /\ Search_start(Searcher(g), dg[g].topics[dg[g].i], Nil)
    /\ dg' = [dg EXCEPT ![g].pc = "await", ![g].searches = @ + 1]
    /\ UNCHANGED <<digest_cache, topicStore, lastDigest>>

\* search() has returned or raised: the dedup loop, then the next query or,
\* after the last one, the sort, the cut to max_articles and the caching of
\* the result; what search() or the sort raises ends the try block at once
Digest_collect(g) ==
    LET s == Searcher(g)
        d == dg[g]
        outcomes == Append(d.outcomes, call[s].outcome)
        search_raised == SearchMultipleRaises(outcomes)
        merged == IF search_raised = "None"
                  THEN MergeUnseen(d.all_articles, call[s].result)
                  ELSE d.all_articles
        raised == IF search_raised # "None" THEN search_raised
                  ELSE IF SortRaises(merged) THEN "TypeError" ELSE "None"
        escapes == raised \notin {"None", "RateLimitError"} /\ ~ExceptException(raised)
        out == IF escapes THEN [result |-> IdleDigest.result, store |-> FALSE]
               ELSE GenerateOutcome(raised, SortNewestFirst(merged), d.topics,
                                    d.cached)
    IN /\ d.pc = "await"
       /\ Search_return(s)
       /\ IF search_raised = "None" /\ d.i < Len(d.topics)
          THEN /\ dg' = [dg EXCEPT ![g] =
                           [@ EXCEPT !.pc = "search", !.i = @ + 1,
                                     !.all_articles = merged, !.outcomes = outcomes]]
               /\ UNCHANGED <<digest_cache, lastDigest>>
          ELSE /\ dg' = [dg EXCEPT ![g] =
                           [@ EXCEPT !.pc = "done", !.all_articles = merged,
                                     !.outcomes = outcomes, !.result = out.result,
                                     !.raised = IF escapes THEN raised ELSE "None",
                                     !.stored_at = IF out.store THEN Some(now)
                                                   ELSE Nil]]
               /\ digest_cache' =
                     IF out.store
                     THEN TTLSet(digest_cache, DigestKey(d.user), out.result, Nil,
                                 DigestTtl, now)
                     ELSE digest_cache
               /\ lastDigest' = IF out.store
                                THEN [lastDigest EXCEPT ![d.user] = Some(out.result)]
                                ELSE lastDigest
       /\ UNCHANGED topicStore

\* the caller has the DigestResult
Digest_return(g) ==
    /\ dg[g].pc = "done"
    /\ dg' = [dg EXCEPT ![g] = IdleDigest]
    /\ UNCHANGED <<now, ticks, digest_cache, topicStore, lastDigest>>

DigestAdvance ==
    /\ ticks < MaxTicks
    /\ \E d \in DigestSteps : now' = now + d
    /\ ticks' = ticks + 1
    /\ UNCHANGED digestVars

InitDigestVars ==
    /\ digest_cache = EmptyDict
    /\ topicStore = [u \in Users |-> IF u = "u1" THEN <<"python", "ai">> ELSE <<>>]
    /\ dg = [g \in DigestCallers |-> IdleDigest]
    /\ lastDigest = [u \in Users |-> Nil]

----------------------------------------------------------------------------
(* NewsApiService.search_multiple and the cut to max_articles of            *)
(* generate_digest, as functions of the lists the search() calls return     *)

MergeUrls == {"u1", "u2", "u3"}
\* publishedAt of a provider record: one of two instants
MergeStamps == {Some(10), Some(20)}
\* a record whose publishedAt is a string datetime.fromisoformat rejects
RawUnparsable == [url |-> "u3", publishedAt |-> Nil]
MergeRaws ==
    {[url |-> u, publishedAt |-> p] : u \in MergeUrls, p \in MergeStamps}
        \cup {RawUnparsable}

\* the lists of at most n records over a set
RECURSIVE ListsUpTo(_, _)
ListsUpTo(S, n) ==
    IF n = 0 THEN {<<>>}
    ELSE LET shorter == ListsUpTo(S, n - 1)
         IN shorter \cup {Append(l, x) : l \in {k \in shorter : Len(k) = n - 1}, x \in S}

\* what one search() can return: the records of a 200 body, parsed at time t
SearchReturns(t) == {ParseArticles(b, t) : b \in ListsUpTo(MergeRaws, MaxPerQuery)}

\* the values generate_digest is given for max_articles
MaxArticlesArgs == {2, MaxArticles}

\* the `for query in queries` loop of search_multiple over the returned lists
RECURSIVE MergeAll(_, _)
MergeAll(all_articles, lists) ==
    IF lists = <<>> THEN all_articles
    ELSE MergeAll(MergeUnseen(all_articles, Head(lists)), Tail(lists))

\* search_multiple(queries), given what search() returns for each query
SearchMultiple(lists) ==
    LET all_articles == MergeAll(<<>>, lists)
    IN IF SortRaises(all_articles)
       THEN [raised |-> "TypeError", articles |-> <<>>]
       ELSE [raised |-> "None", articles |-> SortNewestFirst(all_articles)]

IdleMerge ==
    [pc |-> "idle", lists |-> <<>>, max_articles |-> 0, raised |-> "None",
     merged |-> <<>>, out |-> <<>>, digest |-> <<>>]

\* search_multiple is called and returns or raises; generate_digest, line 89,
\* cuts what it returned
Merge_call(lists, max_articles) ==
    LET r == SearchMultiple(lists)
    IN /\ merge.pc = "idle"
       /\ merge' = [pc |-> "done", lists |-> lists, max_articles |-> max_articles,
                    raised |-> r.raised, merged |-> MergeAll(<<>>, lists),
                    out |-> r.articles,
                    digest |-> Truncate(r.articles, max_articles)]
       /\ UNCHANGED <<now, ticks>>

Merge_return ==
    /\ merge.pc = "done"
    /\ merge' = IdleMerge
    /\ UNCHANGED <<now, ticks>>

InitMergeVars == merge = IdleMerge

----------------------------------------------------------------------------
(* services/scheduler.py: the every-minute job and the delivery loop, with  *)
(* ScheduleRepository and the schedule handlers that write the table.  now  *)
(* counts the seconds since midnight of the scheduler's day.                *)

MisfireGraceTime == 60
\* CronTrigger(minute="*"): one fire time every 60 s, at second 0
FirePeriod == 60
\* add_job leaves max_instances at the scheduler's default
MaxInstances == 1

SchedStep == 30
\* the lists of selected times save_schedule_callback stores, sorted
TimeChoices == {<<"00:01">>, <<"00:01", "00:02">>}

Digit == <<"0", "1", "2", "3", "4", "5", "6", "7", "8", "9">>
TwoDigits(n) == Digit[(n \div 10) + 1] \o Digit[(n % 10) + 1]

\* datetime.now().strftime("%H:%M")
StrftimeHM(t) ==
    TwoDigits((t \div 3600) % 24) \o ":" \o TwoDigits((t \div 60) % 60)

\* a row of the schedules table as ScheduleRepository.create makes it: nothing
\* gives last_sent_at a value
ScheduleRow(times, is_active) ==
    [times |-> times, is_active |-> is_active, last_sent_at |-> Nil]

\* ScheduleRepository.create_or_update
CreateOrUpdate(s, u, times, is_active) ==
    IF s[u] # Nil
    THEN [s EXCEPT ![u] = Some([The(@) EXCEPT !.times = times,
                                              !.is_active = is_active])]
    ELSE [s EXCEPT ![u] = Some(ScheduleRow(times, is_active))]

\* ScheduleRepository.toggle_active
ToggleActive(s, u) ==
    IF s[u] = Nil THEN s
    ELSE [s EXCEPT ![u] = Some([The(@) EXCEPT !.is_active = ~@])]

\* the query without its test on times
GetSchedulesForTime_AnyActive(s, time_str) ==
    {u \in DOMAIN s : s[u] # Nil /\ The(s[u]).is_active}

\* ScheduleRepository.get_schedules_for_time: the users of the rows with
\* is_active == True and times @> [time_str]
GetSchedulesForTime(s, time_str) ==
    {u \in DOMAIN s :
        /\ s[u] # Nil
        /\ The(s[u]).is_active
        /\ \E i \in 1..Len(The(s[u]).times) : The(s[u]).times[i] = time_str}

\* the first fire time at or after t: CronTrigger.get_next_fire_time(None, t)
FirstFireTime(t) == ((t + FirePeriod - 1) \div FirePeriod) * FirePeriod

\* the latest fire time at or before t: the run time a coalescing job is
\* submitted with
LastFireTime(t) == (t \div FirePeriod) * FirePeriod

\* a trigger that fires again at the same instant
NextFireTime_Same(run_time) == run_time

\* the fire time that follows run_time
NextFireTime(run_time) == run_time + FirePeriod

\* the executor's misfire test before it calls the job function
Misfired(run_time, t) == t - run_time > MisfireGraceTime

\* an `if` that looks at the error alone
NoDigestToSend_ErrorOnly(result) == result.error # None

\* send_scheduled_digest, line 45: `if result.error or not result.articles`
NoDigestToSend(result) == result.error # None \/ result.articles = <<>>

\* a handler that lets the exception through
Propagates_All(raised) == raised

\* send_scheduled_digest, lines 63-65: `except Exception` returns False, so
\* nothing raised in the try block leaves the function
Propagates(raised) == FALSE

\* a handler that catches nothing
CheckCatches_Nothing(exc) == FALSE

\* check_and_send_digests, lines 90-91: `except Exception` logs and the function
\* returns None
CheckCatches(exc) == exc # "CancelledError"

\* what generate_digest can hand to send_scheduled_digest
Generated(result) == [raised |-> FALSE, result |-> result]
GenerateRaised == [raised |-> TRUE, result |-> DigestResult(<<>>, <<>>, FALSE, None)]
GenerateReturns ==
    {GenerateRaised,
     Generated(DigestResult(<<"a1">>, <<"python">>, FALSE, None)),
     Generated(DigestResult(<<>>, <<"python">>, FALSE, None)),
     Generated(DigestResult(<<>>, <<>>, FALSE, "no_topics")),
     Generated(DigestResult(<<>>, <<"python">>, FALSE, "rate_limit")),
     Generated(DigestResult(<<>>, <<"python">>, FALSE, "api_error")),
     Generated(DigestResult(<<>>, <<>>, FALSE, "database_error"))}

\* send_scheduled_digest(bot, u): gen is what generate_digest did, send_ok
\* whether bot.send_message returned rather than raised
SendScheduledDigest(u, gen, send_ok) ==
    LET send_called == ~gen.raised /\ ~NoDigestToSend(gen.result)
        raised == gen.raised \/ (send_called /\ ~send_ok)
    IN [user |-> u, gen |-> gen,
        send_called |-> send_called,
        send_raised |-> send_called /\ ~send_ok,
        delivered |-> send_called /\ send_ok,
        ret |-> send_called /\ send_ok,
        escaped |-> Propagates(raised)]

\* the users whose row is active and lists T, and the other users with a row
Due(rows, T) ==
    {u \in DOMAIN rows :
        /\ rows[u] # Nil
        /\ The(rows[u]).is_active
        /\ T \in {The(rows[u]).times[i] : i \in 1..Len(The(rows[u]).times)}}
NotDue(rows, T) == {u \in DOMAIN rows : rows[u] # Nil} \ Due(rows, T)

\* a run of check_and_send_digests.  History: due and passed are the users due
\* and not due by the table as it was when the query ran; attempted, calls,
\* failed and last record the calls of send_scheduled_digest made so far
IdleTick ==
    [pc |-> "idle", id |-> 0, run_time |-> 0, started |-> 0, current_time |-> "",
     found |-> {}, pending |-> {}, end |-> "none",
     due |-> {}, passed |-> {}, attempted |-> {}, calls |-> 0, failed |-> {},
     last |-> Nil, at_stop |-> "none"]

\* one run of the job function is over: the executor releases its instance
JobReleased == [job EXCEPT !.instances = @ - 1]

\* start_scheduler
Scheduler_start ==
    /\ ~job.running
    /\ ~job.stopped
    /\ job' = [job EXCEPT !.running = TRUE, !.next_run_time = FirstFireTime(now)]
    /\ UNCHANGED <<now, ticks, schedules, tick, sent, edits>>

\* stop_scheduler, called once by on_shutdown: shutdown(wait=False) ends the
\* timer, so no later fire time is processed, and returns without waiting for a
\* run in flight.  The executor's shutdown cancels the futures still pending
\* where the installed APScheduler does so, and asyncio.run cancels the tasks
\* left when main() returns: the run in flight gets CancelledError at its
\* current await (cancelled), or is done before that (~cancelled)
Scheduler_stop(cancelled) ==
    LET in_flight == tick.pc # "idle"
    IN /\ job.running
       /\ IF in_flight /\ cancelled
          THEN /\ tick' = [tick EXCEPT !.pc = "idle", !.end = "cancelled",
                                       !.at_stop = tick.pc]
               /\ job' = [JobReleased EXCEPT !.running = FALSE, !.stopped = TRUE]
          ELSE /\ tick' = [tick EXCEPT !.at_stop = IF in_flight THEN tick.pc ELSE @]
               /\ job' = [job EXCEPT !.running = FALSE, !.stopped = TRUE]
       /\ UNCHANGED <<now, ticks, schedules, sent, edits>>

\* save_schedule_callback: create_or_update(times=selected_times, is_active=True)
Schedule_save(u, times) ==
    /\ edits < MaxEdits
    /\ schedules' = CreateOrUpdate(schedules, u, times, TRUE)
    /\ edits' = edits + 1
    /\ UNCHANGED <<now, ticks, job, tick, sent>>

\* toggle_schedule_callback
Schedule_toggle(u) ==
    /\ edits < MaxEdits
    /\ schedules[u] # Nil
    /\ schedules' = ToggleActive(schedules, u)
    /\ edits' = edits + 1
    /\ UNCHANGED <<now, ticks, job, tick, sent>>

\* the scheduler wakes up with the job due, however late: the fire times up to
\* now coalesce into the last one; the run is submitted unless an instance is
\* still running, and the job's next run time moves on either way
Job_process ==
    LET run_time == LastFireTime(now)
    IN /\ job.running
       /\ job.next_run_time <= now
       /\ job.submitted < MaxRuns
       /\ IF job.instances < MaxInstances
          THEN /\ tick' = [IdleTick EXCEPT !.pc = "submitted",
                                           !.id = job.submitted + 1,
                                           !.run_time = run_time]
               /\ job' = [job EXCEPT !.instances = @ + 1,
                                     !.submitted = @ + 1,
                                     !.next_run_time = NextFireTime(run_time)]
          ELSE /\ tick' = tick
               /\ job' = [job EXCEPT !.next_run_time = NextFireTime(run_time)]
       /\ UNCHANGED <<now, ticks, schedules, sent, edits>>

\* the submitted run gets the event loop: the misfire test, then line 74 of
\* check_and_send_digests
Tick_start ==
    /\ tick.pc = "submitted"
    /\ IF Misfired(tick.run_time, now)
       THEN /\ tick' = [tick EXCEPT !.pc = "idle", !.end = "missed"]
            /\ job' = JobReleased
       ELSE /\ tick' = [tick EXCEPT !.pc = "query", !.started = now,
                                    !.current_time = StrftimeHM(now)]
            /\ job' = job
    /\ UNCHANGED <<now, ticks, schedules, sent, edits>>

\* check_and_send_digests, lines 77-85: the query of the due schedules
Tick_query(db_ok) ==
    LET found == GetSchedulesForTime(schedules, tick.current_time)
    IN /\ tick.pc = "query"
       /\ IF ~db_ok
          THEN /\ tick' = [tick EXCEPT !.pc = "idle",
                                       !.end = IF CheckCatches("SQLAlchemyError")
                                               THEN "query_error" ELSE "raised"]
               /\ job' = JobReleased
          ELSE IF found = {}
          THEN /\ tick' = [tick EXCEPT !.pc = "idle", !.end = "empty",
                                       !.due = Due(schedules, tick.current_time),
                                       !.passed = NotDue(schedules, tick.current_time)]
               /\ job' = JobReleased
          ELSE /\ tick' = [tick EXCEPT !.pc = "loop",
                                       !.found = found, !.pending = found,
                                       !.due = Due(schedules, tick.current_time),
                                       !.passed = NotDue(schedules, tick.current_time)]
               /\ job' = job
       /\ UNCHANGED <<now, ticks, schedules, sent, edits>>

\* check_and_send_digests, lines 87-91: one pass of the loop over the rows, in
\* whatever order the query returned them
Tick_dispatch(u, gen, send_ok) ==
    LET a == SendScheduledDigest(u, gen, send_ok)
        rest == tick.pending \ {u}
        after == [tick EXCEPT !.pending = rest,
                              !.attempted = @ \cup {u}, !.calls = @ + 1,
                              !.failed = IF a.gen.raised \/ a.send_raised
                                         THEN @ \cup {u} ELSE @,
                              !.last = Some(a)]
    IN /\ tick.pc = "loop"
       /\ u \in tick.pending
       /\ sent' = IF a.delivered
                  THEN Append(sent, [user |-> u, slot |-> tick.current_time,
                                     tick |-> tick.id, run_time |-> tick.run_time,
                                     started |-> tick.started])
                  ELSE sent
       /\ IF a.escaped
          THEN /\ tick' = [after EXCEPT !.pc = "idle", !.end = "batch_error"]
               /\ job' = JobReleased
          ELSE IF rest = {}
          THEN /\ tick' = [after EXCEPT !.pc = "idle", !.end = "completed"]
               /\ job' = JobReleased
          ELSE /\ tick' = after
               /\ job' = job
       /\ UNCHANGED <<now, ticks, schedules, edits>>

\* the clock moves on, up to MaxMinutes after midnight
SchedAdvance ==
    /\ now + SchedStep <= MaxMinutes * 60
    /\ now' = now + SchedStep
    /\ UNCHANGED <<ticks, schedVars>>

\* the table holds what earlier sessions of the bot left in it: one user with
\* an active schedule, one who never saved a schedule
InitSchedVars ==
    /\ schedules = [u \in Users |->
                      IF u = "u1" THEN Some(ScheduleRow(<<"00:01", "00:02">>, TRUE))
                      ELSE Nil]
    /\ job = [running |-> FALSE, stopped |-> FALSE, next_run_time |-> 0,
              instances |-> 0, submitted |-> 0]
    /\ tick = IdleTick
    /\ sent = <<>>
    /\ edits = 0

----------------------------------------------------------------------------
(* database/repositories/schedule.py: create_or_update, one call per        *)
(* database session (get_session), the sessions running side by side;       *)
(* database/models.py: schedules.user_id is unique                          *)

Sessions == {"a", "b"}
DefaultTimezone == "Europe/Moscow"

\* a row of the schedules table; id stands for the uuid4 primary key
TableRow(id, u, times, timezone, is_active) ==
    [id |-> id, user_id |-> u, times |-> times, timezone |-> timezone,
     is_active |-> is_active]

\* select(Schedule).where(Schedule.user_id == user_id), over the committed rows
GetByUser(rows, u) == {r \in rows : r.user_id = u}

IdleSess ==
    [pc |-> "idle", user_id |-> "None", times |-> <<>>, existing |-> Nil,
     write |-> "none", created |-> FALSE, raised |-> "None", rows_seen |-> 0]

\* the session of s holds an INSERT for u that is flushed and not yet committed
InsertInFlight(s, u) ==
    sess[s].pc = "commit" /\ sess[s].write = "insert" /\ sess[s].user_id = u

\* create_or_update(user_id, times, is_active=True) is called in a new session
Save_start(s, u, times) ==
    /\ sess[s].pc = "idle"
    /\ saves < MaxSaves
    /\ sess' = [sess EXCEPT ![s] = [IdleSess EXCEPT !.pc = "get", !.user_id = u,
                                                    !.times = times]]
    /\ saves' = saves + 1
    /\ UNCHANGED <<now, ticks, table>>

\* `existing = await self.get_by_user(user_id)`: the session reads what is
\* committed
Save_get_by_user(s) ==
    LET found == GetByUser(table, sess[s].user_id)
    IN /\ sess[s].pc = "get"
       /\ sess' = [sess EXCEPT ![s].pc = "flush",
                               ![s].rows_seen = Cardinality(found),
                               ![s].existing = IF found = {} THEN Nil
                                               ELSE Some((CHOOSE r \in found : TRUE).id)]
       /\ UNCHANGED <<now, ticks, table, saves>>

\* the assignments and flush of lines 67-71, or create(), lines 41-50: an
\* INSERT waits for another session's uncommitted INSERT of the same user_id
\* and fails on the unique index when a row of that user is committed
Save_flush(s) ==
    LET c == sess[s]
    IN /\ c.pc = "flush"
       /\ IF c.existing # Nil
          THEN sess' = [sess EXCEPT ![s].pc = "commit", ![s].write = "update",
                                    ![s].created = FALSE]
          ELSE /\ \A o \in Sessions \ {s} : ~InsertInFlight(o, c.user_id)
               /\ sess' = [sess EXCEPT ![s] =
                             IF GetByUser(table, c.user_id) # {}
                             THEN [@ EXCEPT !.pc = "done", !.raised = "IntegrityError"]
                             ELSE [@ EXCEPT !.pc = "commit", !.write = "insert",
                                            !.created = TRUE]]
       /\ UNCHANGED <<now, ticks, table, saves>>

\* get_session: `await session.commit()` after the handler's block
Save_commit(s) ==
    LET c == sess[s]
    IN /\ c.pc = "commit"
       /\ table' =
             IF c.write = "insert"
             THEN table \cup {TableRow(saves, c.user_id, c.times, DefaultTimezone,
                                       TRUE)}
             ELSE {IF r.id = The(c.existing)
                   THEN [r EXCEPT !.times = c.times, !.timezone = DefaultTimezone,
                                  !.is_active = TRUE]
                   ELSE r : r \in table}
       /\ sess' = [sess EXCEPT ![s].pc = "done"]
       /\ UNCHANGED <<now, ticks, saves>>

\* the handler has the outcome; the session is closed
Save_return(s) ==
    /\ sess[s].pc = "done"
    /\ sess' = [sess EXCEPT ![s] = IdleSess]
    /\ UNCHANGED <<now, ticks, table, saves>>

InitSaveVars ==
    /\ table = {}
    /\ sess = [s \in Sessions |-> IdleSess]
    /\ saves = 0

----------------------------------------------------------------------------
(* handlers/schedule.py: edit_times_handler, time_selection_callback,       *)
(* save_schedule_callback; the FSM data lives in the MemoryStorage          *)

\* `if len(selected_times) >= 3`, line 126
MaxTimes == 3

\* the HH:MM values of the time:<HH:MM> buttons, in ascending string order
SlotOrder == <<"00:01", "00:02", "09:00", "18:00">>
Slots == {SlotOrder[i] : i \in 1..Len(SlotOrder)}

\* sorted(selected_times)
Sorted(times) == SelectSeq(SlotOrder, LAMBDA t : t \in times)

\* set(schedule.times) if the user has a schedule with times, else set()
StoredTimes(rows, u) ==
    IF rows[u] # Nil
    THEN {The(rows[u]).times[i] : i \in 1..Len(The(rows[u]).times)}
    ELSE {}

\* mutant: the limit test lets a fourth time in
MaxTimesReached_OffByOne(selected_times) == Cardinality(selected_times) > MaxTimes

\* `len(selected_times) >= 3`
MaxTimesReached(selected_times) == Cardinality(selected_times) >= MaxTimes

NoAnswer == [user |-> "None", text |-> "none"]

\* edit_times_handler: the selection starts from the stored times (from
\* nothing when the load fails)
Entry_edit_times(u, db_ok) ==
    /\ selected' = [selected EXCEPT ![u] = IF db_ok THEN StoredTimes(schedules, u)
                                           ELSE {}]
    /\ answer' = [user |-> u, text |-> "TIME_SELECTION_MESSAGE"]
    /\ UNCHANGED <<now, ticks, schedules>>

\* time_selection_callback
Entry_toggle(u, time_val) ==
    /\ IF time_val \in selected[u]
       THEN /\ selected' = [selected EXCEPT ![u] = @ \ {time_val}]
            /\ answer' = [user |-> u, text |-> "removed"]
       ELSE IF MaxTimesReached(selected[u])
       THEN /\ selected' = selected
            /\ answer' = [user |-> u, text |-> "MAX_TIMES_REACHED_ERROR"]
       ELSE /\ selected' = [selected EXCEPT ![u] = @ \cup {time_val}]
            /\ answer' = [user |-> u, text |-> "added"]
    /\ UNCHANGED <<now, ticks, schedules>>

\* save_schedule_callback
Entry_save(u, db_ok) ==
    LET selected_times == Sorted(selected[u])
    IN /\ IF selected_times = <<>>
          THEN /\ answer' = [user |-> u, text |-> "NO_TIMES_SELECTED_ERROR"]
               /\ UNCHANGED <<selected, schedules>>
          ELSE IF ~db_ok
          THEN /\ answer' = [user |-> u, text |-> "SCHEDULE_SAVE_ERROR"]
               /\ UNCHANGED <<selected, schedules>>
          ELSE /\ schedules' = CreateOrUpdate(schedules, u, selected_times, TRUE)
               /\ selected' = [selected EXCEPT ![u] = {}]
               /\ answer' = [user |-> u, text |-> "SCHEDULE_SAVED_MESSAGE"]
       /\ UNCHANGED <<now, ticks>>

InitEntryVars ==
    /\ selected = [u \in Users |-> {}]
    /\ answer = NoAnswer

----------------------------------------------------------------------------
(* database/repositories/topic.py: TopicRepository.create, .replace_all;    *)
(* database/models.py: topics_user_id_name_unique.  topicStore[u] is what   *)
(* list_by_user returns: the names of the user's rows, oldest first         *)

\* the names the settings flow hands over: message.text.strip() as typed, and
\* names with outer blanks as any other caller of the repository may pass
RawNames == {"ai", " AI", "Python ", "python"}

UpperChars == "AIPYTHON"
LowerChars == "aipython"

\* str.lower() on one character
LowerChar(c) ==
    IF \E i \in 1..Len(UpperChars) : SubSeq(UpperChars, i, i) = c
    THEN LET i == CHOOSE i \in 1..Len(UpperChars) : SubSeq(UpperChars, i, i) = c
         IN SubSeq(LowerChars, i, i)
    ELSE c

\* str.lower()
RECURSIVE Lower(_)
Lower(s) ==
    IF Len(s) = 0 THEN s
    ELSE LowerChar(SubSeq(s, 1, 1)) \o Lower(SubSeq(s, 2, Len(s)))

\* str.strip(): the blanks at both ends go
RECURSIVE Strip(_)
Strip(s) ==
    IF Len(s) = 0 THEN s
    ELSE IF SubSeq(s, 1, 1) = " " THEN Strip(SubSeq(s, 2, Len(s)))
    ELSE IF SubSeq(s, Len(s), Len(s)) = " " THEN Strip(SubSeq(s, 1, Len(s) - 1))
    ELSE s

\* `normalized_name = name.strip().lower()`
NormalizeName(name) == Lower(Strip(name))

\* mutant: a table without the unique constraint
UniqueViolation_None(names, name) == FALSE

\* topics_user_id_name_unique: the flush of a row whose (user_id, name) is
\* already in the table fails
UniqueViolation(names, name) == \E i \in 1..Len(names) : names[i] = name

\* TopicRepository.create in a transaction that holds `names` for the user:
\* the names afterwards, or the IntegrityError of the flush
TopicCreate(names, name) ==
    LET normalized_name == NormalizeName(name)
    IN IF UniqueViolation(names, normalized_name)
       THEN [raised |-> "IntegrityError", names |-> names]
       ELSE [raised |-> "None", names |-> Append(names, normalized_name)]

\* the `for name in names` loop of replace_all; the first flush that fails
\* ends it
RECURSIVE TopicCreateAll(_, _)
TopicCreateAll(stored, names) ==
    IF names = <<>> THEN [raised |-> "None", names |-> stored]
    ELSE LET r == TopicCreate(stored, Head(names))
         IN IF r.raised # "None" THEN r
            ELSE TopicCreateAll(r.names, Tail(names))

\* TopicRepository.replace_all: delete_all_by_user, then the creates
ReplaceAll(names) == TopicCreateAll(<<>>, names)

NameLists == ListsUpTo(RawNames, MaxNames)

NoTopicOp ==
    [op |-> "none", user |-> "None", names |-> <<>>, raised |-> "None",
     before |-> <<>>]

\* create(user_id, name) in a session of its own: get_session commits what was
\* flushed, and rolls back when the flush raised
Topic_create(u, name) ==
    LET r == TopicCreate(topicStore[u], name)
    IN /\ topicStore' = [topicStore EXCEPT ![u] = r.names]
       /\ topicOp' = [op |-> "create", user |-> u, names |-> <<name>>,
                      raised |-> r.raised, before |-> topicStore[u]]
       /\ UNCHANGED <<now, ticks>>

\* save_topics_final: replace_all(db_user.id, user_topics) inside get_session;
\* an exception rolls the deletes and the inserts back
Topic_replace_all(u, names) ==
    LET r == ReplaceAll(names)
    IN /\ topicStore' = [topicStore EXCEPT ![u] = IF r.raised = "None" THEN r.names
                                                  ELSE @]
       /\ topicOp' = [op |-> "replace_all", user |-> u, names |-> names,
                      raised |-> r.raised, before |-> topicStore[u]]
       /\ UNCHANGED <<now, ticks>>

InitTopicVars == topicOp = NoTopicOp

\* the lists save_topics_final hands to replace_all in the runs with the digest
\* service: the names as process_topic_input kept them
FlowLists == {<<"ai">>}

----------------------------------------------------------------------------
(* handlers/digest.py: save_article_callback, one database session per      *)
(* call; database/repositories/article.py, library.py; database/models.py:  *)
(* articles.external_id unique, saved_articles_user_article_unique          *)

LibSessions == {"a", "b"}

\* hexdigest() as the text it is in callback data
Hex(digest) == digest[1] \o "-" \o digest[2]

\* the articles of a digest message: the DTOs search() made of a 200 body
Delivered == ParseArticles(<<RawB, RawA>>, 0)
DeliveredArticles == {Delivered[i] : i \in 1..Len(Delivered)}

\* keyboards/digest.py: callback_data = f"save:{ext_id}"
SaveCallbackData(a) == "save:" \o Hex(a.external_id)

\* callback.data.split(":", 1)[1]
AfterFirstColon(data) ==
    LET i == CHOOSE i \in 1..Len(data) :
                 /\ SubSeq(data, i, i) = ":"
                 /\ \A j \in 1..(i - 1) : SubSeq(data, j, j) # ":"
    IN SubSeq(data, i + 1, Len(data))

\* the row create_or_update(external_id, title="Saved article",
\* url=f"article:{external_id}") inserts
StubArticle(id, external_id) ==
    [id |-> id, external_id |-> external_id, title |-> "Saved article",
     url |-> "article:" \o external_id]

\* select(Article).where(Article.external_id == external_id)
GetByExternalId(rows, external_id) == {r \in rows : r.external_id = external_id}

\* LibraryRepository.is_saved: the count of the join is positive
IsSaved(srows, arows, u, external_id) ==
    \E sv \in srows, ar \in arows :
        sv.user_id = u /\ sv.article_id = ar.id /\ ar.external_id = external_id

\* mutant: a saved_articles table without the unique constraint
PairCommitted_Never(srows, u, article_id) == FALSE

\* saved_articles_user_article_unique: a committed row holds the pair
PairCommitted(srows, u, article_id) ==
    \E sv \in srows : sv.user_id = u /\ sv.article_id = article_id

IdleLib ==
    [pc |-> "idle", user_id |-> "None", external_id |-> "", seq |-> 0,
     article |-> Nil, new_article |-> FALSE, text |-> "none", raised |-> "None"]

\* a session holds an INSERT into articles that is flushed and not committed
ArticleInsertInFlight(s, external_id) ==
    /\ lib[s].pc \in {"save", "commit"}
    /\ lib[s].new_article
    /\ lib[s].external_id = external_id

\* a session holds an INSERT into saved_articles that is flushed, not committed
SavedInsertInFlight(s, u, article_id) ==
    /\ lib[s].pc = "commit"
    /\ lib[s].user_id = u
    /\ lib[s].article # Nil /\ The(lib[s].article).id = article_id

\* the user presses the save button under a delivered article
LibSave_start(s, u, a) ==
    /\ lib[s].pc = "idle"
    /\ libCalls < MaxLibCalls
    /\ lib' = [lib EXCEPT ![s] =
                  [IdleLib EXCEPT !.pc = "is_saved", !.user_id = u,
                                  !.external_id = AfterFirstColon(SaveCallbackData(a)),
                                  !.seq = libCalls + 1]]
    /\ libCalls' = libCalls + 1
    /\ UNCHANGED <<now, ticks, article_rows, saved_rows, shown, lastDel>>

\* `if await library_repo.is_saved(db_user.id, external_id)`
LibSave_is_saved(s) ==
    LET c == lib[s]
    IN /\ c.pc = "is_saved"
       /\ lib' = [lib EXCEPT ![s] =
                     IF IsSaved(saved_rows, article_rows, c.user_id, c.external_id)
                     THEN [@ EXCEPT !.pc = "done",
                                    !.text = "ARTICLE_ALREADY_SAVED_MESSAGE"]
                     ELSE [@ EXCEPT !.pc = "get"]]
       /\ UNCHANGED <<now, ticks, article_rows, saved_rows, libCalls, shown, lastDel>>

\* `article = await article_repo.get_by_external_id(external_id)`
LibSave_get(s) ==
    LET c == lib[s]
        found == GetByExternalId(article_rows, c.external_id)
    IN /\ c.pc = "get"
       /\ lib' = [lib EXCEPT ![s] =
                     IF found # {}
                     THEN [@ EXCEPT !.pc = "save",
                                    !.article = Some(CHOOSE r \in found : TRUE)]
                     ELSE [@ EXCEPT !.pc = "create"]]
       /\ UNCHANGED <<now, ticks, article_rows, saved_rows, libCalls, shown, lastDel>>

\* `if article is None`: create_or_update finds no row and inserts the stub;
\* the flush waits for another session's uncommitted row of that external_id
\* and fails on the unique index once such a row is committed
LibSave_create(s) ==
    LET c == lib[s]
    IN /\ c.pc = "create"
       /\ \A o \in LibSessions \ {s} : ~ArticleInsertInFlight(o, c.external_id)
       /\ lib' = [lib EXCEPT ![s] =
                     IF GetByExternalId(article_rows, c.external_id) # {}
                     THEN [@ EXCEPT !.pc = "done", !.raised = "IntegrityError",
                                    !.text = "ARTICLE_SAVE_ERROR_MESSAGE"]
                     ELSE [@ EXCEPT !.pc = "save", !.new_article = TRUE,
                                    !.article = Some(StubArticle(c.seq, c.external_id))]]
       /\ UNCHANGED <<now, ticks, article_rows, saved_rows, libCalls, shown, lastDel>>

\* `await library_repo.save_article(db_user.id, article.id)`: the flush waits
\* for another session's uncommitted row of the pair and fails on the unique
\* constraint once such a row is committed
LibSave_save(s) ==
    LET c == lib[s]
        article_id == The(c.article).id
    IN /\ c.pc = "save"
       /\ \A o \in LibSessions \ {s} : ~SavedInsertInFlight(o, c.user_id, article_id)
       /\ lib' = [lib EXCEPT ![s] =
                     IF PairCommitted(saved_rows, c.user_id, article_id)
                     THEN [@ EXCEPT !.pc = "done", !.raised = "IntegrityError",
                                    !.text = "ARTICLE_SAVE_ERROR_MESSAGE"]
                     ELSE [@ EXCEPT !.pc = "commit"]]
       /\ UNCHANGED <<now, ticks, article_rows, saved_rows, libCalls, shown, lastDel>>

\* get_session: commit; the rows of the session become visible
LibSave_commit(s) ==
    LET c == lib[s]
    IN /\ c.pc = "commit"
       /\ article_rows' = IF c.new_article THEN article_rows \cup {The(c.article)}
                          ELSE article_rows
       /\ saved_rows' = saved_rows \cup
                           {[user_id |-> c.user_id, article_id |-> The(c.article).id,
                             saved_at |-> c.seq]}
       /\ lib' = [lib EXCEPT ![s].pc = "done", ![s].text = "ARTICLE_SAVED_MESSAGE"]
       /\ UNCHANGED <<now, ticks, libCalls, shown, lastDel>>

\* the callback is answered; the session is closed
LibSave_return(s) ==
    /\ lib[s].pc = "done"
    /\ lib' = [lib EXCEPT ![s] = IdleLib]
    /\ UNCHANGED <<now, ticks, article_rows, saved_rows, libCalls, shown, lastDel>>

NoDel == [op |-> "none", user_id |-> "None", idx |-> 0, displayed |-> "",
          deleted |-> Nil, before |-> <<>>]

\* handlers/library.py
ITEMS_PER_PAGE == 5

\* ORDER BY saved_at DESC
RECURSIVE NewestSavedFirst(_)
NewestSavedFirst(rows) ==
    IF rows = {} THEN <<>>
    ELSE LET r == CHOOSE r \in rows : \A q \in rows : q.saved_at <= r.saved_at
         IN <<r>> \o NewestSavedFirst(rows \ {r})

\* .offset(offset).limit(limit)
OffsetLimit(rows, offset, limit) ==
    SubSeq(rows, offset + 1,
           IF Len(rows) < offset + limit THEN Len(rows) ELSE offset + limit)

\* LibraryRepository.list_by_user: the external ids of the joined articles, in
\* the order of the rows
ListByUser(srows, arows, u, limit, offset) ==
    LET mine == NewestSavedFirst({sv \in srows : sv.user_id = u})
        page == OffsetLimit(mine, offset, limit)
    IN [i \in 1..Len(page) |->
           [article_id |-> page[i].article_id,
            external_id |-> (CHOOSE ar \in arows : ar.id = page[i].article_id).external_id]]

\* LibraryRepository.count_by_user
CountByUser(srows, u) == Cardinality({sv \in srows : sv.user_id = u})

\* show_library_page: the message it sends or edits in, with the page number
\* its buttons carry and the articles it lists; an empty library gives a
\* message without buttons
LibraryPage(srows, arows, u, page) ==
    LET total_count == CountByUser(srows, u)
        total_pages == (total_count + ITEMS_PER_PAGE - 1) \div ITEMS_PER_PAGE
        upper == IF page < total_pages THEN page ELSE total_pages
        clamped == IF upper < 1 THEN 1 ELSE upper
        items == ListByUser(srows, arows, u, ITEMS_PER_PAGE,
                            (clamped - 1) * ITEMS_PER_PAGE)
    IN IF total_count = 0 THEN [page |-> 1, items |-> <<>>]
       ELSE [page |-> clamped,
             items |-> [i \in 1..Len(items) |-> items[i].external_id]]

\* /library, or a press on a page button: the user's screen shows the page
Lib_show(u) ==
    /\ shown' = [shown EXCEPT ![u] = Some(LibraryPage(saved_rows, article_rows, u, 1))]
    /\ UNCHANGED <<now, ticks, article_rows, saved_rows, lib, libCalls, lastDel>>

\* delete_by_index_callback for a press on button idx of the message on the
\* user's screen (callback data lib_del_idx:<page>:<idx>): the row at that
\* offset of the list as it is now is deleted, then the message is edited to
\* the page as it is now
Lib_delete_idx(u, idx) ==
    LET message == The(shown[u])
        offset == (message.page - 1) * ITEMS_PER_PAGE + (idx - 1)
        items == ListByUser(saved_rows, article_rows, u, 1, offset)
        after == {sv \in saved_rows :
                     ~(sv.user_id = u /\ sv.article_id = items[1].article_id)}
        before == ListByUser(saved_rows, article_rows, u, CountByUser(saved_rows, u), 0)
        record == [op |-> "lib_del_idx", user_id |-> u, idx |-> idx,
                   displayed |-> message.items[idx], deleted |-> Nil,
                   before |-> [i \in 1..Len(before) |-> before[i].external_id]]
    IN /\ shown[u] # Nil
       /\ idx \in 1..Len(message.items)
       /\ libCalls < MaxLibCalls
       /\ libCalls' = libCalls + 1
       /\ IF items = <<>>
          THEN /\ lastDel' = record
               /\ UNCHANGED <<saved_rows, shown>>
          ELSE /\ saved_rows' = after
               /\ lastDel' = [record EXCEPT !.deleted = Some(items[1].external_id)]
               /\ shown' = [shown EXCEPT ![u] =
                               Some(LibraryPage(after, article_rows, u, message.page))]
       /\ UNCHANGED <<now, ticks, article_rows, lib>>

InitLibVars ==
    /\ article_rows = {}
    /\ saved_rows = {}
    /\ lib = [s \in LibSessions |-> IdleLib]
    /\ libCalls = 0
    /\ shown = [u \in Users |-> Nil]
    /\ lastDel = NoDel

----------------------------------------------------------------------------
(* services/scheduler.py, line 74, and config/settings.py, line 25: the     *)
(* HH:MM string of a run, on a host whose system time zone is one of        *)
(* HostZones.  An instant is counted in seconds since 00:00 UTC.            *)

\* Settings.timezone, with TIMEZONE unset
Timezone == "Europe/Moscow"
HostZones == {"UTC", "Europe/Moscow", "Asia/Tokyo"}

\* hours east of UTC; none of the three zones has daylight saving time
UtcOffset(zone) ==
    CASE zone = "UTC" -> 0
      [] zone = "Europe/Moscow" -> 3
      [] zone = "Asia/Tokyo" -> 9

DaySeconds == 86400
MaxHalfHours == 47
Instants == {k * 1800 : k \in 0..MaxHalfHours}

\* seconds since local midnight in zone at the instant utc
WallClock(utc, zone) == (utc + UtcOffset(zone) * 3600) % DaySeconds

\* datetime.now(): no tz argument, so the naive local time of the host
DatetimeNow(utc, host) == WallClock(utc, host)

IdleClock == [pc |-> "idle", utc |-> 0, host |-> "UTC", current_time |-> ""]

\* check_and_send_digests, line 74: current_time = datetime.now().strftime("%H:%M")
Clock_current_time(utc, host) ==
    /\ clock.pc = "idle"
    /\ clock' = [pc |-> "query", utc |-> utc, host |-> host,
                 current_time |-> StrftimeHM(DatetimeNow(utc, host))]
    /\ UNCHANGED <<now, ticks>>

\* the run goes on to its query and returns
Clock_return ==
    /\ clock.pc = "query"
    /\ clock' = IdleClock
    /\ UNCHANGED <<now, ticks>>

InitClockVars == clock = IdleClock
InitTickHistVars == prevTick = "none"

----------------------------------------------------------------------------
(* Specifications: the same initial state, one next-state relation per     *)
(* component                                                               *)

Init ==
    /\ now = 0
    /\ ticks = 0
    /\ InitCacheVars
    /\ InitSearchVars
    /\ InitDigestVars
    /\ InitSchedVars
    /\ InitMergeVars
    /\ InitSaveVars
    /\ InitEntryVars
    /\ InitTopicVars
    /\ InitLibVars
    /\ InitTickHistVars
    /\ InitClockVars

NextCache ==
    \/ \E k \in Keys : Cache_get(k) /\ UNCHANGED exceptCache
    \/ \E k \in Keys, v \in Vals, t \in TtlArgs :
            Cache_set(k, v, t) /\ UNCHANGED exceptCache
    \/ \E k \in Keys : Cache_delete(k) /\ UNCHANGED exceptCache
    \/ Cache_clear /\ UNCHANGED exceptCache
    \/ Cache_cleanup_expired /\ UNCHANGED exceptCache
    \/ CacheAdvance /\ UNCHANGED exceptCache

SpecCache == Init /\ [][NextCache]_vars

\* one search() at a time, every answer the API can give
NextSearch ==
    \/ \E q \in Queries, l \in Langs :
            Search_start("s1", q, l) /\ UNCHANGED exceptSearch
    \/ \E st \in Statuses, b \in Bodies :
            Request_attempt("s1", st, b) /\ UNCHANGED exceptSearch
    \/ Request_wake("s1") /\ UNCHANGED exceptSearch
    \/ Search_return("s1") /\ UNCHANGED exceptSearch
    \/ SearchAdvance /\ UNCHANGED exceptSearch

SpecSearch == Init /\ [][NextSearch]_vars

\* two search() calls overlapping at their awaits, the API answering at once
NextSearchConc ==
    \/ \E c \in Callers, l \in Langs :
            Search_start(c, "python", l) /\ UNCHANGED exceptSearch
    \/ \E c \in Callers, st \in ConcStatuses, b \in Bodies :
            Request_attempt(c, st, b) /\ UNCHANGED exceptSearch
    \/ \E c \in Callers : Search_return(c) /\ UNCHANGED exceptSearch
    \/ SearchAdvance /\ UNCHANGED exceptSearch

SpecSearchConc == Init /\ [][NextSearchConc]_vars

\* generate_digest() calls, one at a time, over the two caches
NextDigest ==
    \/ \E u \in Users : Digest_start("g1", u) /\ UNCHANGED exceptDigest
    \/ \E ok \in BOOLEAN : Digest_topics("g1", ok) /\ UNCHANGED exceptDigest
    \/ Digest_search("g1") /\ UNCHANGED exceptDigestSearch
    \/ \E st \in DigestStatuses, b \in Bodies :
            Request_attempt("s1", st, b) /\ UNCHANGED exceptSearch
    \/ Digest_collect("g1") /\ UNCHANGED exceptDigestSearch
    \/ Digest_return("g1") /\ UNCHANGED exceptDigest
    \/ DigestAdvance /\ UNCHANGED exceptDigest

SpecDigest == Init /\ [][NextDigest]_vars

\* the scheduler, the schedule handlers and the clock
NextScheduler ==
    \/ Scheduler_start /\ UNCHANGED exceptSched
    \/ \E u \in Users, times \in TimeChoices :
            Schedule_save(u, times) /\ UNCHANGED exceptSched
    \/ \E u \in Users : Schedule_toggle(u) /\ UNCHANGED exceptSched
    \/ Job_process /\ UNCHANGED exceptSched
    \/ Tick_start /\ UNCHANGED exceptSched
    \/ \E ok \in BOOLEAN : Tick_query(ok) /\ UNCHANGED exceptSched
    \/ \E u \in Users, gen \in GenerateReturns, ok \in BOOLEAN :
            Tick_dispatch(u, gen, ok) /\ UNCHANGED exceptSched
    \/ SchedAdvance /\ UNCHANGED exceptSched

SpecScheduler == Init /\ [][NextScheduler]_vars

\* the runs of the job one after another, over the table as one save before the
\* start of the scheduler left it; prevTick keeps how the run before the current
\* one ended.  The event loop runs every task that is ready, and each await of
\* a run in flight returns or raises (the session, the HTTP client and the bot
\* all work under timeouts)
Ticks_start == Tick_start /\ UNCHANGED <<exceptTicks, prevTick>>
Ticks_query == \E ok \in BOOLEAN : Tick_query(ok) /\ UNCHANGED <<exceptTicks, prevTick>>
Ticks_dispatch ==
    \E u \in Users, gen \in GenerateReturns, ok \in BOOLEAN :
        Tick_dispatch(u, gen, ok) /\ UNCHANGED <<exceptTicks, prevTick>>

NextTicks ==
    \/ Scheduler_start /\ UNCHANGED <<exceptTicks, prevTick>>
    \/ /\ ~job.running /\ edits = 0
       /\ \E u \in Users, times \in TimeChoices : Schedule_save(u, times)
       /\ UNCHANGED <<exceptTicks, prevTick>>
    \/ /\ Job_process
       /\ prevTick' = IF job.instances < MaxInstances THEN tick.end ELSE prevTick
       /\ UNCHANGED exceptTicks
    \/ Ticks_start
    \/ Ticks_query
    \/ Ticks_dispatch
    \/ SchedAdvance /\ UNCHANGED <<exceptTicks, prevTick>>

SpecTicks ==
    /\ Init /\ [][NextTicks]_vars
    /\ WF_vars(Ticks_start) /\ WF_vars(Ticks_query) /\ WF_vars(Ticks_dispatch)

\* the life of the scheduler from on_startup to on_shutdown, over the table as
\* it stands
NextShutdown ==
    \/ Scheduler_start /\ UNCHANGED exceptSched
    \/ \E cancelled \in BOOLEAN : Scheduler_stop(cancelled) /\ UNCHANGED exceptSched
    \/ Job_process /\ UNCHANGED exceptSched
    \/ Tick_start /\ UNCHANGED exceptSched
    \/ \E ok \in BOOLEAN : Tick_query(ok) /\ UNCHANGED exceptSched
    \/ \E u \in Users, gen \in GenerateReturns, ok \in BOOLEAN :
            Tick_dispatch(u, gen, ok) /\ UNCHANGED exceptSched
    \/ SchedAdvance /\ UNCHANGED exceptSched

SpecShutdown == Init /\ [][NextShutdown]_vars

\* create_or_update calls in two sessions, interleaved in every way
NextSave ==
    \/ \E s \in Sessions, u \in Users, times \in TimeChoices :
            Save_start(s, u, times) /\ UNCHANGED exceptSave
    \/ \E s \in Sessions : Save_get_by_user(s) /\ UNCHANGED exceptSave
    \/ \E s \in Sessions : Save_flush(s) /\ UNCHANGED exceptSave
    \/ \E s \in Sessions : Save_commit(s) /\ UNCHANGED exceptSave
    \/ \E s \in Sessions : Save_return(s) /\ UNCHANGED exceptSave

SpecSave == Init /\ [][NextSave]_vars

\* the schedule entry flow of every user, over the table as it stands
NextEntry ==
    \/ \E u \in Users, ok \in BOOLEAN : Entry_edit_times(u, ok) /\ UNCHANGED exceptEntry
    \/ \E u \in Users, t \in Slots : Entry_toggle(u, t) /\ UNCHANGED exceptEntry
    \/ \E u \in Users, ok \in BOOLEAN : Entry_save(u, ok) /\ UNCHANGED exceptEntry

SpecEntry == Init /\ [][NextEntry]_vars

\* the topic repository, called in any order for any user
NextTopics ==
    \/ \E u \in Users, name \in RawNames : Topic_create(u, name) /\ UNCHANGED exceptTopics
    \/ \E u \in Users, names \in NameLists :
            Topic_replace_all(u, names) /\ UNCHANGED exceptTopics

SpecTopics == Init /\ [][NextTopics]_vars

\* one user replacing the topic list in the settings flow and asking for digests
NextSettings ==
    \/ \E names \in FlowLists :
            Topic_replace_all("u1", names) /\ UNCHANGED exceptTopics
    \/ Digest_start("g1", "u1") /\ UNCHANGED exceptDigest
    \/ \E ok \in BOOLEAN : Digest_topics("g1", ok) /\ UNCHANGED exceptDigest
    \/ Digest_search("g1") /\ UNCHANGED exceptDigestSearch
    \/ \E st \in {"200", "403"}, b \in Bodies :
            Request_attempt("s1", st, b) /\ UNCHANGED exceptSearch
    \/ Digest_collect("g1") /\ UNCHANGED exceptDigestSearch
    \/ Digest_return("g1") /\ UNCHANGED exceptDigest
    \/ DigestAdvance /\ UNCHANGED exceptDigest

SpecSettings == Init /\ [][NextSettings]_vars

\* save:<external_id> callbacks in two sessions, interleaved in every way
NextLibrary ==
    \/ \E s \in LibSessions, u \in Users, a \in DeliveredArticles :
            LibSave_start(s, u, a) /\ UNCHANGED exceptLib
    \/ \E s \in LibSessions : LibSave_is_saved(s) /\ UNCHANGED exceptLib
    \/ \E s \in LibSessions : LibSave_get(s) /\ UNCHANGED exceptLib
    \/ \E s \in LibSessions : LibSave_create(s) /\ UNCHANGED exceptLib
    \/ \E s \in LibSessions : LibSave_save(s) /\ UNCHANGED exceptLib
    \/ \E s \in LibSessions : LibSave_commit(s) /\ UNCHANGED exceptLib
    \/ \E s \in LibSessions : LibSave_return(s) /\ UNCHANGED exceptLib

SpecLibrary == Init /\ [][NextLibrary]_vars

\* the library pages of the users beside their save callbacks
NextLibraryPages ==
    \/ \E s \in LibSessions, u \in Users, a \in DeliveredArticles :
            LibSave_start(s, u, a) /\ UNCHANGED exceptLib
    \/ \E s \in LibSessions : LibSave_is_saved(s) /\ UNCHANGED exceptLib
    \/ \E s \in LibSessions : LibSave_get(s) /\ UNCHANGED exceptLib
    \/ \E s \in LibSessions : LibSave_create(s) /\ UNCHANGED exceptLib
    \/ \E s \in LibSessions : LibSave_save(s) /\ UNCHANGED exceptLib
    \/ \E s \in LibSessions : LibSave_commit(s) /\ UNCHANGED exceptLib
    \/ \E s \in LibSessions : LibSave_return(s) /\ UNCHANGED exceptLib
    \/ \E u \in Users : Lib_show(u) /\ UNCHANGED exceptLib
    \/ \E u \in Users, idx \in 1..ITEMS_PER_PAGE :
            Lib_delete_idx(u, idx) /\ UNCHANGED exceptLib

SpecLibraryPages == Init /\ [][NextLibraryPages]_vars

\* runs of the job at any half hour of the day, on a host in any of the zones
NextClock ==
    \/ /\ clock.pc = "idle"
       /\ \E utc \in Instants, host \in HostZones :
              Clock_current_time(utc, host) /\ UNCHANGED exceptClock
    \/ Clock_return /\ UNCHANGED exceptClock

SpecClock == Init /\ [][NextClock]_vars

\* search_multiple over one or two queries, for every pair of returned lists
NextMerge ==
    \/ /\ merge.pc = "idle"
       /\ \E l1 \in SearchReturns(now), max_articles \in MaxArticlesArgs :
            Merge_call(<<l1>>, max_articles) /\ UNCHANGED exceptMerge
    \/ /\ merge.pc = "idle"
       /\ \E l1, l2 \in SearchReturns(now), max_articles \in MaxArticlesArgs :
            Merge_call(<<l1, l2>>, max_articles) /\ UNCHANGED exceptMerge
    \/ Merge_return /\ UNCHANGED exceptMerge

SpecMerge == Init /\ [][NextMerge]_vars

----------------------------------------------------------------------------
(* C1: in a run of check_and_send_digests that read the time T and got the  *)
(* due schedules from the store, a digest is attempted for exactly the      *)
(* users whose schedule, as the query saw it, is active and lists T: each   *)
(* of them once, and no message of the run goes to a user whose schedule is *)
(* inactive or does not list T.                                             *)
C1_TickProcessesExactlyDueUsers ==
    /\ tick.attempted \subseteq tick.due
    /\ tick.calls = Cardinality(tick.attempted)
    /\ tick.end = "completed" => tick.attempted = tick.due /\ tick.due # {}
    /\ tick.end = "empty" => tick.due = {}
    /\ tick.end \in {"completed", "empty"} =>
          tick.current_time = StrftimeHM(tick.started)
    /\ \A i \in 1..Len(sent) :
          sent[i].tick = tick.id =>
              sent[i].user \in tick.due /\ sent[i].slot = tick.current_time

\* the 00:02 run delivered to the one user whose active schedule lists 00:02
\* and passed over a user whose schedule lists only 00:01 or is switched off
C1_Witness ==
    \E u, v \in Users :
        /\ tick.end = "completed"
        /\ tick.current_time = "00:02"
        /\ tick.attempted = {u}
        /\ tick.passed = {v}
        /\ \E i \in 1..Len(sent) : sent[i].tick = tick.id /\ sent[i].user = u

----------------------------------------------------------------------------
(* C2: within the batch of one run, whatever the order of the users and     *)
(* whichever of them fail (generate_digest raising or send_message          *)
(* raising), every user of the batch is processed, and each user whose      *)
(* digest has articles and no error and whose send does not raise gets the  *)
(* message.                                                                 *)
C2_FailureIsolatedPerUser ==
    /\ tick.pc = "loop" =>
          tick.pending = tick.found \ tick.attempted /\ tick.pending # {}
    /\ (tick.pc = "idle" /\ tick.found # {}) =>
          tick.attempted = tick.found /\ tick.end = "completed"
    /\ tick.last # Nil =>
          LET a == The(tick.last)
          IN (/\ ~a.gen.raised
              /\ a.gen.result.error = None
              /\ a.gen.result.articles # <<>>
              /\ ~a.send_raised) =>
                 /\ a.delivered
                 /\ sent # <<>>
                 /\ sent[Len(sent)].tick = tick.id
                 /\ sent[Len(sent)].user = a.user

\* a batch of two: the pipeline of the first user raised and the second user
\* got the message
C2_Witness ==
    /\ tick.end = "completed"
    /\ tick.calls = 2
    /\ tick.failed # {}
    /\ tick.failed # tick.attempted
    /\ The(tick.last).delivered
    /\ The(tick.last).user \notin tick.failed
    /\ sent[Len(sent)].user = The(tick.last).user

----------------------------------------------------------------------------
(* C3: after a scheduled message is delivered to a user, the last_sent_at   *)
(* of the user's schedule holds the delivery time; it is null only until    *)
(* the first delivery.                                                      *)
C3_LastSentAtRecordsDelivery ==
    \A i \in 1..Len(sent) :
        /\ schedules[sent[i].user] # Nil
        /\ The(schedules[sent[i].user]).last_sent_at # Nil
        /\ The(The(schedules[sent[i].user]).last_sent_at) >= sent[i].started

----------------------------------------------------------------------------
(* C4: when generate_digest returns a result with an error (no_topics,      *)
(* rate_limit, api_error, database_error) or with no articles,              *)
(* send_scheduled_digest does not call send_message and returns False; the  *)
(* message is sent only for a result without error and with at least one    *)
(* article.                                                                 *)
C4_NoMessageWithoutArticles ==
    tick.last # Nil =>
        LET a == The(tick.last)
            r == a.gen.result
            got == /\ sent # <<>>
                   /\ sent[Len(sent)].tick = tick.id
                   /\ sent[Len(sent)].user = a.user
        IN /\ (~a.gen.raised /\ (r.error # None \/ Len(r.articles) = 0)) =>
                 ~a.send_called /\ ~got /\ a.ret = FALSE
           /\ a.send_called =>
                 ~a.gen.raised /\ r.error = None /\ Len(r.articles) >= 1
           /\ got <=> (a.send_called /\ ~a.send_raised)
           /\ a.ret = TRUE <=> got

\* the only due user's digest came back without error and without articles:
\* no send, False, nothing delivered by the run
C4_Witness ==
    /\ tick.end = "completed"
    /\ tick.calls = 1
    /\ ~The(tick.last).gen.raised
    /\ The(tick.last).gen.result.error = None
    /\ The(tick.last).gen.result.articles = <<>>
    /\ ~The(tick.last).send_called
    /\ The(tick.last).ret = FALSE
    /\ \A j \in 1..Len(sent) : sent[j].tick # tick.id

----------------------------------------------------------------------------
(* C5: a user gets at most one scheduled digest per time slot per day: no   *)
(* two runs of the job read the same HH:MM and deliver for it to the same   *)
(* user, whatever the delay with which a run starts.                        *)
C5_AtMostOncePerSlot ==
    \A i, j \in 1..Len(sent) :
        (sent[i].user = sent[j].user /\ sent[i].slot = sent[j].slot) => i = j

\* C5, amended: no two runs that each start less than a minute after their
\* fire time read the same HH:MM and deliver for it to the same user.
C5_AtMostOncePerSlotOnTime ==
    \A i, j \in 1..Len(sent) :
        (/\ sent[i].user = sent[j].user
         /\ sent[i].slot = sent[j].slot
         /\ sent[i].started - sent[i].run_time < 60
         /\ sent[j].started - sent[j].run_time < 60) => i = j

\* a user with both slots got the 00:01 digest from the run fired at 00:01 and
\* the 00:02 digest from the run fired at 00:02, each half a minute late
C5_Witness ==
    \E i, j \in 1..Len(sent) :
        /\ sent[i].user = sent[j].user
        /\ sent[i].slot = "00:01" /\ sent[i].run_time = 60 /\ sent[i].started = 90
        /\ sent[j].slot = "00:02" /\ sent[j].run_time = 120 /\ sent[j].started = 150
        /\ Len(sent) = 2

----------------------------------------------------------------------------
(* C11: search() never propagates an error to its caller: whatever the HTTP *)
(* exchange gives (200, 400, 403, another status, a network failure on      *)
(* every attempt), the call ends by returning a list, which is empty for a  *)
(* failure that has no fallback value.                                      *)
C11_SearchNeverRaises ==
    \A c \in Callers :
        call[c].pc = "done" =>
            /\ call[c].raised = "None"
            /\ call[c].outcome \in {"None", "RateLimitError"} /\ call[c].cached = Nil
                  => call[c].result = <<>>

----------------------------------------------------------------------------
(* C7: when a digest was cached for user U earlier and a later              *)
(* generate_digest(U) has to fetch while the fetch layer is rate-limited,   *)
(* the call returns the earlier digest (same articles) with from_cache true;*)
(* when no digest was ever cached for U it returns error "rate_limit" with  *)
(* the topic list and no articles.                                          *)
C7_RateLimitServesCachedDigest ==
    \A g \in DigestCallers :
        (/\ dg[g].pc = "done"
         /\ dg[g].outcomes # <<>>
         /\ \A i \in 1..Len(dg[g].outcomes) : dg[g].outcomes[i] = "RateLimitError") =>
            IF dg[g].prev # Nil
            THEN /\ dg[g].result.articles = The(dg[g].prev).articles
                 /\ dg[g].result.from_cache
            ELSE /\ dg[g].result.error = "rate_limit"
                 /\ dg[g].result.topics = topicStore[dg[g].user]
                 /\ dg[g].result.articles = <<>>

----------------------------------------------------------------------------
(* C8: after set(key, v, ttl) at time t, get(key) returns v at every time   *)
(* up to and including t+ttl unless the key was overwritten, deleted or     *)
(* cleared; strictly after t+ttl get(key) returns absent and removes the    *)
(* entry (len() one less than before the get); get never returns a value    *)
(* whose expiry instant has passed; a get on a missing key adds no entry.   *)
C8_GetHonoursTtl ==
    op.name = "get" =>
        LET k == op.key
            live == lastSet[k].has /\ now <= lastSet[k].until
        IN /\ live => op.ret = Some(lastSet[k].value) /\ k \in DOMAIN cache
           /\ ~live => op.ret = Nil /\ k \notin DOMAIN cache
           /\ (op.prePresent /\ ~live) => TTLLen(cache) = op.preLen - 1
           /\ (~op.prePresent \/ live) => TTLLen(cache) = op.preLen
           /\ \A j \in DOMAIN cache : lastSet[j].has

\* a get found an entry whose TTL had elapsed, reported absence and evicted it
C8_Witness ==
    /\ op.name = "get"
    /\ op.prePresent
    /\ op.ret = Nil
    /\ lastSet[op.key].has
    /\ now = lastSet[op.key].until + 1
    /\ TTLLen(cache) = op.preLen - 1

----------------------------------------------------------------------------
(* C6: when the API answers a search with HTTP 403, search() returns the    *)
(* last successfully fetched list for the same cache key, even when that    *)
(* entry's TTL has expired, and an empty list only if no fetch for the key  *)
(* ever succeeded.                                                           *)
C6_RateLimitReturnsLastGood ==
    \A c \in Callers :
        (call[c].pc = "done" /\ call[c].outcome = "RateLimitError") =>
            call[c].result = IF call[c].goodAtEnd = Nil THEN <<>>
                             ELSE The(call[c].goodAtEnd)

----------------------------------------------------------------------------
(* C9: a search that begins after an HTTP-200 answer for the same (query,   *)
(* lang) was stored and before that entry's TTL of 30 minutes has elapsed   *)
(* issues no HTTP request and returns the stored list.                      *)
C9_FreshEntryServesWithoutHttp ==
    \A c \in Callers :
        call[c].expect # Nil =>
            /\ call[c].pc = "done"
            /\ call[c].outcome = "hit"
            /\ call[c].requests = 0
            /\ call[c].result = The(call[c].expect)

\* a search made exactly 30 minutes after the fetch is served the stored,
\* non-empty list
C9_Witness ==
    \E c \in Callers :
        /\ call[c].pc = "done"
        /\ call[c].expect # Nil
        /\ call[c].result # <<>>
        /\ now = latestGood[call[c].key].until
        /\ now >= ArticlesTtl

----------------------------------------------------------------------------
(* C10: a search that misses the cache sends at most 3 HTTP requests; 200,  *)
(* 400 and 403 end the attempts at once (the parsed list, an empty list,    *)
(* the rate-limit condition); any other status or a network error is        *)
(* retried after a backoff of 1 s, then 2 s; the third failure gives an     *)
(* empty list with no backoff after it.                                     *)
Retryable == {"500", "ClientError"}

----------------------------------------------------------------------------
(* search_multiple and the cut of generate_digest                           *)

\* the articles of the returned lists in the order the loop meets them
RECURSIVE Flatten(_)
Flatten(lists) == IF lists = <<>> THEN <<>> ELSE Head(lists) \o Flatten(Tail(lists))

\* the place of an article in a list that holds it once
Pos(articles, a) == CHOOSE k \in 1..Len(articles) : articles[k] = a

MergeReturned == merge.pc = "done" /\ merge.raised = "None"

\* C12: the list search_multiple returns holds each article identity (the md5
\* of the URL) at most once, the article kept for an identity is the first one
\* met in query-list order, and every URL some query returned is in the list.
C12_MergedIdentitiesUnique ==
    MergeReturned =>
        LET out == merge.out
            met == Flatten(merge.lists)
        IN /\ \A i, j \in 1..Len(out) :
                  out[i].external_id = out[j].external_id => i = j
           /\ \A i \in 1..Len(out) :
                  \E k \in 1..Len(met) :
                      /\ met[k] = out[i]
                      /\ \A h \in 1..(k - 1) : met[h].external_id # out[i].external_id
           /\ {met[k].url : k \in 1..Len(met)} = {out[i].url : i \in 1..Len(out)}

\* two queries returned the same URL with different publication times, and a
\* second URL besides
C12_Witness ==
    /\ MergeReturned
    /\ Len(merge.lists) = 2
    /\ Len(merge.out) >= 2
    /\ \E i \in 1..Len(merge.lists[1]), j \in 1..Len(merge.lists[2]) :
           /\ merge.lists[1][i].url = merge.lists[2][j].url
           /\ merge.lists[1][i].published_at # merge.lists[2][j].published_at

\* C13: the list search_multiple returns is ordered by publication time, newest
\* first, and holds exactly the merged articles; articles with equal publication
\* times stand in the order in which the merge first met them.
C13_NewestFirstStable ==
    MergeReturned =>
        LET out == merge.out
            merged == merge.merged
        IN /\ Len(out) = Len(merged)
           /\ {out[i] : i \in 1..Len(out)} = {merged[i] : i \in 1..Len(merged)}
           /\ \A i, j \in 1..Len(out) :
                  i < j => /\ out[i].published_at.at >= out[j].published_at.at
                           /\ out[i].published_at.at = out[j].published_at.at
                                 => Pos(merged, out[i]) < Pos(merged, out[j])

\* the sort moved a later-met newer article ahead of two equally old ones
C13_Witness ==
    /\ MergeReturned
    /\ Len(merge.out) = 3
    /\ merge.out # merge.merged
    /\ merge.out[1].published_at.at > merge.out[2].published_at.at
    /\ merge.out[2].published_at.at = merge.out[3].published_at.at

\* C15: the articles of a freshly assembled digest are the first max_articles
\* of the recency-ordered merge (all of it when it is shorter): never more than
\* max_articles, and no article left out is newer than one kept, whichever
\* query it came from.
C15_NewestPrefixOfMerge ==
    MergeReturned =>
        LET out == merge.out
            digest == merge.digest
        IN /\ Len(digest) <= merge.max_articles
           /\ Len(digest) = IF Len(out) < merge.max_articles
                            THEN Len(out) ELSE merge.max_articles
           /\ digest = SubSeq(out, 1, Len(digest))
           /\ \A i \in 1..Len(digest), j \in 1..Len(merge.merged) :
                  (\A k \in 1..Len(digest) : digest[k] # merge.merged[j])
                      => digest[i].published_at.at >= merge.merged[j].published_at.at

\* the cut dropped an article, and both articles kept came from the same query
C15_Witness ==
    /\ MergeReturned
    /\ Len(merge.lists) = 2
    /\ Len(merge.out) > merge.max_articles
    /\ Len(merge.digest) = merge.max_articles
    /\ \E q \in 1..2 :
           /\ \A k \in 1..Len(merge.digest) :
                  \E i \in 1..Len(merge.lists[q]) : merge.lists[q][i] = merge.digest[k]
           /\ merge.lists[3 - q] # <<>>
           /\ \A i \in 1..Len(merge.lists[3 - q]), k \in 1..Len(merge.digest) :
                  merge.lists[3 - q][i].external_id # merge.digest[k].external_id

----------------------------------------------------------------------------
(* generate_digest: what it returns and what it touches                     *)

\* C14: for a user who follows no topic and has no unexpired cached digest,
\* generate_digest returns the error "no_topics" with no articles, starts no
\* search, writes nothing to the digest cache and raises nothing.
C14_NoTopicsNoFetch ==
    \A g \in DigestCallers :
        LET d == dg[g]
        IN (d.load = "ok" /\ d.cached = Nil /\ topicStore[d.user] = <<>>) =>
               /\ d.pc = "done"
               /\ d.result = DigestResult(<<>>, <<>>, FALSE, "no_topics")
               /\ d.raised = "None"
               /\ d.searches = 0
               /\ d.stored_at = Nil
               /\ call[Searcher(g)].pc = "idle"
               /\ TTLGetValue(digest_cache, DigestKey(d.user), now) = Nil

\* the topics of a user without topics were loaded, at a time when the cache
\* holds some other user's digest
C14_Witness ==
    \E g \in DigestCallers :
        /\ dg[g].pc = "done" /\ dg[g].load = "ok"
        /\ dg[g].result.error = "no_topics"
        /\ \E u \in Users : DigestKey(u) \in DOMAIN digest_cache

C17_FromCacheIffCacheHit ==
    \A g \in DigestCallers :
        LET d == dg[g]
            key == DigestKey(d.user)
        IN d.pc = "done" =>
               /\ d.result.from_cache <=> d.cached # Nil
               /\ d.cached # Nil =>
                      /\ d.load = "none" /\ d.searches = 0 /\ d.stored_at = Nil
                      /\ d.result = [The(d.cached) EXCEPT !.from_cache = TRUE]
               /\ d.stored_at # Nil =>
                      /\ ~d.result.from_cache /\ d.result.error = "None"
                      /\ d.searches = Len(d.topics)
                      /\ key \in DOMAIN digest_cache
                      /\ digest_cache[key] =
                            CacheEntry(d.result, The(d.stored_at) + DigestTtl)
               /\ (d.cached = Nil /\ d.result.error = "None") => d.stored_at # Nil

\* a digest with articles was served from the cache at the last second of its
\* 300 s
C17_Witness ==
    \E g \in DigestCallers :
        /\ dg[g].pc = "done"
        /\ dg[g].result.from_cache
        /\ dg[g].result.articles # <<>>
        /\ digest_cache[DigestKey(dg[g].user)].expires_at = now

----------------------------------------------------------------------------
(* stop_scheduler                                                          *)

\* C18: once stop_scheduler has returned no further run of
\* check_and_send_digests is submitted, and a run that was in flight when it
\* was called goes on to its end: it is not cancelled, and every user of its
\* batch is processed.
C18_StopLeavesBatchRunning ==
    /\ (job.stopped /\ tick.at_stop = "none") => tick.pc = "idle"
    /\ (job.stopped /\ tick.at_stop # "none" /\ tick.pc = "idle") =>
           /\ tick.end # "cancelled"
           /\ tick.pending = {}
           /\ tick.at_stop = "loop" => tick.attempted = tick.found

----------------------------------------------------------------------------
(* create_or_update                                                        *)

\* C19: whatever the interleaving of create_or_update calls, the table never
\* holds two rows of one user, and every call comes back with a schedule: the
\* call that finds no row creates it (created = TRUE), a call that comes later
\* writes its times, timezone and active flag to that row (created = FALSE).
C19_OneRowLaterOverwrites ==
    /\ \A u \in Users : Cardinality(GetByUser(table, u)) <= 1
    /\ \A s \in Sessions :
           sess[s].pc = "done" =>
               /\ sess[s].raised = "None"
               /\ sess[s].created <=> sess[s].rows_seen = 0
               /\ \E r \in GetByUser(table, sess[s].user_id) :
                      sess[s].existing # Nil => r.id = The(sess[s].existing)

\* the unique index alone: no user ever has two rows
C19_AtMostOneRow ==
    \A u \in Users : Cardinality(GetByUser(table, u)) <= 1

----------------------------------------------------------------------------
(* the schedule entry flow                                                 *)

\* C20: in every step of the entry flow the selection of a user has at most 3
\* times afterwards; a time:<HH:MM> toggle on a selection of 3 that does not
\* hold the time is answered with the limit error and leaves the selection as
\* it was; a row is written only from a selection that is not empty, and holds
\* its 1 to 3 times, sorted; a save on an empty selection is answered with the
\* error and writes nothing.
C20_OneToThreeTimes ==
    [][\A u \in Users :
          /\ Cardinality(selected'[u]) <= MaxTimes
          /\ schedules'[u] # Nil =>
                 Len(The(schedules'[u]).times) \in 1..MaxTimes
          /\ (Cardinality(selected[u]) = MaxTimes /\ selected'[u] # selected[u]) =>
                 \/ selected'[u] \subseteq selected[u]
                 \/ selected'[u] = StoredTimes(schedules, u)
          /\ answer' = [user |-> u, text |-> "MAX_TIMES_REACHED_ERROR"] =>
                 /\ selected' = selected
                 /\ Cardinality(selected[u]) = MaxTimes
          /\ schedules'[u] # schedules[u] =>
                 /\ selected[u] # {}
                 /\ schedules'[u] # Nil
                 /\ The(schedules'[u]).times = Sorted(selected[u])
          /\ answer' = [user |-> u, text |-> "NO_TIMES_SELECTED_ERROR"] =>
                 /\ schedules' = schedules
                 /\ selected'[u] = {}
      ]_vars

\* a user without a schedule saved three times, and a fourth time was refused
\* on a selection of three
C20_Witness ==
    \E u, v \in Users :
        /\ schedules[v] # Nil /\ Len(The(schedules[v]).times) = MaxTimes
        /\ The(schedules[v]).times # <<"00:01", "00:02">>
        /\ answer = [user |-> u, text |-> "MAX_TIMES_REACHED_ERROR"]
        /\ Cardinality(selected[u]) = MaxTimes

----------------------------------------------------------------------------
(* the topic repository                                                    *)

\* a name with no blank at either end and no upper-case letter
TrimmedLower(name) ==
    /\ Len(name) > 0 => SubSeq(name, 1, 1) # " " /\ SubSeq(name, Len(name), Len(name)) # " "
    /\ \A i \in 1..Len(name), j \in 1..Len(UpperChars) :
           SubSeq(name, i, i) # SubSeq(UpperChars, j, j)

\* two names of the list are the same once trimmed and lowered
ClashAfterNormalizing(names) ==
    \E i, j \in 1..Len(names) : i # j /\ NormalizeName(names[i]) = NormalizeName(names[j])

\* C21: after any sequence of create and replace_all calls every stored topic
\* name is trimmed and lower-case and no user has the same name twice; a
\* replace_all whose list holds two names that are equal once normalized
\* leaves no duplicate (it fails and the user's topics stay as they were),
\* a replace_all without such a pair leaves exactly its names, normalized.
C21_TopicsNormalizedUnique ==
    /\ \A u \in Users :
           /\ \A i \in 1..Len(topicStore[u]) : TrimmedLower(topicStore[u][i])
           /\ \A i, j \in 1..Len(topicStore[u]) :
                  topicStore[u][i] = topicStore[u][j] => i = j
    /\ topicOp.op = "replace_all" =>
           IF ClashAfterNormalizing(topicOp.names)
           THEN topicOp.raised = "IntegrityError"
                   /\ topicStore[topicOp.user] = topicOp.before
           ELSE topicOp.raised = "None"
                   /\ topicStore[topicOp.user] =
                         [i \in 1..Len(topicOp.names) |-> NormalizeName(topicOp.names[i])]

\* a replace_all was given "ai" and " AI" for a user who had topics
C21_Witness ==
    /\ topicOp.op = "replace_all"
    /\ Len(topicOp.names) = 2
    /\ topicOp.names[1] # topicOp.names[2]
    /\ ClashAfterNormalizing(topicOp.names)
    /\ topicOp.before # <<>>

----------------------------------------------------------------------------
(* the library: save:<external_id>                                         *)

\* the library entries of a user for an external identity
EntriesOf(u, external_id) ==
    {sv \in saved_rows :
        /\ sv.user_id = u
        /\ \E ar \in article_rows : ar.id = sv.article_id /\ ar.external_id = external_id}

C27_SavedEntryIsFetchedArticle ==
    \A sv \in saved_rows :
        \E ar \in article_rows, a \in DeliveredArticles :
            /\ ar.id = sv.article_id
            /\ ar.external_id = Hex(a.external_id)
            /\ ar.url = a.url

\* C23: search_multiple over any mix of records with parseable and unparsable
\* publication timestamps completes: it raises nothing and hands back every
\* merged article.
C23_MixedTimestampsMerge ==
    merge.pc = "done" =>
        /\ merge.raised = "None"
        /\ Len(merge.out) = Len(merge.merged)

\* C24: every run of check_and_send_digests comes to its end, and it ends by
\* returning: whether the query of the due schedules fails, generate_digest
\* raises or returns an error, or send_message raises, the run raises nothing
\* and its instance of the job is released, so the next fire time is free to
\* start a run.
C24_TickTerminates ==
    /\ [](tick.end \notin {"raised", "batch_error"})
    /\ [](tick.pc = "idle" => job.instances = 0)
    /\ (tick.pc # "idle") ~> (tick.pc = "idle")

\* a second run is in its loop after a run whose query failed
C24_Witness ==
    /\ tick.id = 2
    /\ tick.pc = "loop"
    /\ prevTick = "query_error"

\* C25: the HH:MM string a run queries with is the wall-clock time in
\* Settings.timezone at the instant of the run, whatever the host's zone.
C25_CurrentTimeInDefaultZone ==
    clock.pc = "query" =>
        clock.current_time = StrftimeHM(WallClock(clock.utc, Timezone))

\* C26: a generate_digest call none of whose search() calls got a response
\* with articles (each was rate-limited or got no data from _request) does
\* not write the user's digest cache entry.
C26_NoCacheWriteWithoutFetch ==
    \A g \in DigestCallers :
        (/\ dg[g].pc = "done"
         /\ dg[g].outcomes # <<>>
         /\ \A i \in 1..Len(dg[g].outcomes) :
                dg[g].outcomes[i] \in {"RateLimitError", "None"}) =>
            /\ dg[g].stored_at = Nil
            /\ lastDigest[dg[g].user] = dg[g].prev

\* C28: every fire time the running scheduler processes starts a run of
\* check_and_send_digests, whether or not the run before it has returned: the
\* latest run is the run of the latest fire time processed.
C28_EveryFireTimeStartsRun ==
    (job.running /\ job.submitted > 0) =>
        job.next_run_time = NextFireTime(tick.run_time)

C29_DigestFollowsStoredTopics ==
    \A g \in DigestCallers :
        (/\ dg[g].pc = "done"
         /\ dg[g].result.error = "None"
         /\ dg[g].raised = "None"
         /\ dg[g].at_call = topicStore[dg[g].user]) =>
            dg[g].result.topics = topicStore[dg[g].user]

====
